---- MODULE Spec2Model ----
(***************************************************************************)
(* gelf: AI-assisted commit messages and structured code review.           *)
(*                                                                         *)
(* Text is modelled as a sequence of atoms.  An atom is a one-character    *)
(* string (" ", "+", "-", ",", "\n", a digit) or a literal word that the   *)
(* code only ever tests as a whole ("diff", "--git", "index", "@@", "a/",  *)
(* "b/", a path word, a run of ordinary text "t").  strings.Split,         *)
(* strings.Join, strings.Fields, strings.HasPrefix, strings.TrimPrefix and *)
(* the regular expressions of the source are computed on these sequences.  *)
(***************************************************************************)
EXTENDS Integers, Sequences, FiniteSets, TLC

VARIABLES
    \* ---- diff parsers (internal/ai/vertex.go, internal/git/diff.go)
    diff,          \* the unified diff handed to the parsers (text)
    files,         \* result of parseDiffFiles
    diffSummary,   \* result of ParseDiffSummary (DiffSummary.Files)
    parsed,        \* which of the two parsers have run: subset of {"files","summary"}
    \* ---- line-context extractor (internal/ui/tui.go)
    ctxLines,      \* lines of one file's diff text, strings.Split(diff, "\n")
    targetLine,    \* the comment's line number
    contextLines,  \* result of getCodeContextForLine
    ctxDone,       \* the extractor has run
    \* ---- ReviewCodeStructured (internal/ai/vertex.go), running in the tea.Cmd
    rpc,           \* its position: "idle", "start", "loop", "returned"
    fileIdx,       \* number of files the loop has gone through
    fileReviews,   \* var fileReviews []FileReview
    allComments,   \* var allComments []ReviewComment
    settled,       \* history: for each file gone through, whether its review succeeded
    aiCalls,       \* history: number of GenerateContent requests sent
    aiLog,         \* history: the requests sent, in order, each with its outcome
    review,        \* the value returned: <<>> before the return, else <<[review, err]>>
    \* ---- review TUI and review command (internal/ui/tui.go, cmd)
    rmState,       \* reviewModel.state
    rmErr,         \* reviewModel.err ("nil" or the error)
    rmReview,      \* reviewModel.structuredReview: <<>> for nil, else <<review>>
    program,       \* the tea.Program: "none", "running", "quit", "returned"
    runResult,     \* what reviewModel.Run returned: <<>> or <<[text, err]>>
    printed,       \* history: number of calls of printStructuredReview
    warned,        \* history: number of warnings printed by the command
    cmdResult,     \* what runReview returned: <<>> while it runs, else <<err>>
    \* ---- reviewSingleFile on its own
    sfResp,        \* the AI collaborator's response to the request
    sfResult,      \* <<>> before the call, else <<what reviewSingleFile returned>>
    \* ---- GenerateCommitMessage on its own
    genRaw,        \* what Models.GenerateContent returns: [err, Candidates]
    genRequests,   \* history: number of GenerateContent requests sent
    genResult,     \* <<>> before the call, else <<[message, err]>>
    \* ---- legacy streaming review (reviewModel with useStructured = false)
    toSend,        \* the chunks ReviewCodeStreaming has still to hand to its callback
    aiErr,         \* whether ReviewCodeStreaming returns an error after them
    pc,            \* the producer goroutine: "none", "streaming", "sendErr", "closing", "done"
    sub,           \* chan msgReviewChunk: the chunks in its buffer
    subClosed,     \* the channel is closed
    waiting,       \* number of waitForActivity commands in flight
    msgs,          \* messages produced by commands, not yet handled by Update
    sState,        \* reviewModel.state
    sReview,       \* reviewModel.review
    sErr,          \* reviewModel.err
    sProgram,      \* the tea.Program: "none", "running", "quit", "returned"
    sRunResult,    \* what reviewModel.Run returned: <<>> or <<[text, err]>>
    sPrinted,      \* history: the texts Run printed
    delivered,     \* history: the chunks sent on the channel, sentinel included
    \* ---- language resolution (internal/config, cmd)
    lCmd,          \* the command whose language is resolved: "commit" or "review"
    lFlag,         \* the --language flag variable: "" when the flag is absent
    fileConfig,    \* what loadFromFile returned: <<>> on error, else <<FileConfig>>
    cfg,           \* <<>> before config.Load, else <<Config>>
    lUsed,         \* <<>> or <<the language handed to the AI client>>
    \* ---- diff sections shown to the reader (internal/ui/tui.go)
    relLines,      \* lines of one file's diff text
    relComments,   \* the file's comments, by LineNo
    relOut,        \* <<>> before the call, else <<result of getRelevantDiffSections>>
    \* ---- printComment (internal/ui/tui.go)
    pcComment,     \* the ai.ReviewComment handed to printComment
    pcOut,         \* <<>> before the call, else <<the label printed>>
    \* ---- commit TUI and commit command (internal/ui/tui.go, cmd)
    mState,          \* model.state
    commitMessage,   \* model.commitMessage
    originalMessage, \* model.originalMessage
    mErr,            \* model.err ("nil" or the error)
    textInput,       \* model.textInput.Value()
    cProgram,        \* the tea.Program: "none", "running", "quit", "returned"
    inFlight,        \* the tea.Cmd that is running: "none", "generate", "commit"
    pendingMsg,      \* message produced by a tea.Cmd, not yet handled by Update
    genCalls,        \* history: number of GenerateCommitMessage requests
    commits,         \* history: the messages passed to git.CommitChanges
    cRunResult,      \* what model.Run returned: <<>> or <<err>>
    cWarned,         \* history: number of warnings printed by the command
    cCmdResult,      \* what runCommit returned: <<>> while it runs, else <<err>>
    cPrinted,        \* history: what the commit and message commands wrote to stdout
    invoked,         \* the command line: "review", "commit", "commit --dry-run", ...
    \* ---- scrollable review view (reviewModel of the TUI)
    scState,         \* reviewModel.state
    reviewLines,     \* reviewModel.reviewLines
    scrollOffset,    \* reviewModel.scrollOffset
    windowHeight,    \* reviewModel.windowHeight
    scProgram        \* the tea.Program of the view: "none", "running", "quit"

diffVars == <<diff, files, diffSummary, parsed>>
ctxVars == <<ctxLines, targetLine, contextLines, ctxDone>>
aiVars == <<rpc, fileIdx, fileReviews, allComments, settled, aiCalls, aiLog, review>>
tuiVars == <<rmState, rmErr, rmReview, program, runResult, printed, warned, cmdResult>>
reviewVars == <<aiVars, tuiVars>>
genVars == <<genRaw, genRequests, genResult>>
producerVars == <<toSend, aiErr, pc, sub, subClosed, delivered>>
consumerVars == <<waiting, msgs, sState, sReview, sErr, sProgram, sRunResult, sPrinted>>
streamVars == <<producerVars, consumerVars>>
langVars == <<lCmd, lFlag, fileConfig, cfg, lUsed>>
relVars == <<relLines, relComments, relOut>>
labelVars == <<pcComment, pcOut>>
scrollVars == <<scState, reviewLines, scrollOffset, windowHeight, scProgram>>
sideVars == <<langVars, relVars, labelVars, scrollVars>>
fileVars == <<sfResp, sfResult, genVars, streamVars, sideVars>>
modelVars == <<mState, commitMessage, originalMessage, mErr, textInput>>
cliVars == <<cPrinted, invoked>>
commitVars == <<modelVars, cProgram, inFlight, pendingMsg, genCalls, commits,
                cRunResult, cWarned, cCmdResult, cliVars>>

vars == <<diffVars, ctxVars, reviewVars, fileVars, commitVars>>

(***************************************************************************)
(* Bounds                                                                  *)
(***************************************************************************)
MaxDiffLines == 3
MaxBody == 4
MaxTarget == 5
MaxFiles == 3
MaxComments == 2
MaxFileComments == 6
MaxInput == 2
MaxParts == 2
MaxCandidates == 2
MaxChunks == 3
MaxHunkBody == 3
SubCapacity == 1

(***************************************************************************)
(* strings package                                                         *)
(***************************************************************************)
NL == "\n"
SP == " "

HasPrefix(s, p) == Len(s) >= Len(p) /\ SubSeq(s, 1, Len(p)) = p

HasSuffix(s, p) == Len(s) >= Len(p) /\ SubSeq(s, Len(s) - Len(p) + 1, Len(s)) = p

TrimPrefix(s, p) == IF HasPrefix(s, p) THEN SubSeq(s, Len(p) + 1, Len(s)) ELSE s

TrimSuffix(s, p) == IF HasSuffix(s, p) THEN SubSeq(s, 1, Len(s) - Len(p)) ELSE s

RECURSIVE SplitFrom(_, _, _, _)
SplitFrom(s, sep, i, cur) ==
    IF i > Len(s) THEN <<cur>>
    ELSE IF s[i] = sep THEN <<cur>> \o SplitFrom(s, sep, i + 1, <<>>)
    ELSE SplitFrom(s, sep, i + 1, Append(cur, s[i]))

\* strings.Split(s, "\n"): always at least one element, "" splits to [""]
Split(s, sep) == SplitFrom(s, sep, 1, <<>>)

RECURSIVE Join(_, _)
\* strings.Join(elems, sep)
Join(elems, sep) ==
    IF Len(elems) = 0 THEN <<>>
    ELSE IF Len(elems) = 1 THEN elems[1]
    ELSE elems[1] \o <<sep>> \o Join(Tail(elems), sep)

RECURSIVE FieldsFrom(_, _, _)
FieldsFrom(s, i, cur) ==
    IF i > Len(s) THEN (IF cur = <<>> THEN <<>> ELSE <<cur>>)
    ELSE IF s[i] = SP THEN (IF cur = <<>> THEN <<>> ELSE <<cur>>) \o FieldsFrom(s, i + 1, <<>>)
    ELSE FieldsFrom(s, i + 1, Append(cur, s[i]))

\* strings.Fields(s): the maximal runs of non-space atoms
Fields(s) == FieldsFrom(s, 1, <<>>)

(***************************************************************************)
(* Lines of a unified diff                                                 *)
(***************************************************************************)
DiffGit == <<"diff", SP, "--git">>

\* "diff --git a/<p> b/<p>" for a path p (a path may hold spaces)
MarkerLine(p) == DiffGit \o <<SP, "a/">> \o p \o <<SP, "b/">> \o p

PathX == <<"x">>
PathXY == <<"x", SP, "y">>

DiffInputLines ==
    { MarkerLine(PathX),            \* diff --git a/x b/x
      MarkerLine(PathXY),           \* diff --git a/x y b/x y
      DiffGit,                      \* a marker line cut short: fewer than four fields
      DiffGit \o <<SP, "a/", SP, "b/">>,   \* a marker line with empty paths
      <<"+", "+", "+", SP, "b/", "x">>,
      <<"-", "-", "-", SP, "a/", "x">>,
      <<"+", "t">>,
      <<"-", "t">>,
      <<SP, "t">>,
      <<"+">>,                      \* an added empty line
      <<>> }                        \* an empty line

RECURSIVE SeqsUpTo(_, _)
\* all sequences over S of length 0..n
SeqsUpTo(S, n) ==
    IF n = 0 THEN {<<>>}
    ELSE LET shorter == SeqsUpTo(S, n - 1)
         IN shorter \cup {Append(q, x) : q \in {r \in shorter : Len(r) = n - 1}, x \in S}

DiffInputs == {Join(ls, NL) : ls \in SeqsUpTo(DiffInputLines, MaxDiffLines) \ {<<>>}}

(***************************************************************************)
(* parseDiffFiles (Diff Segmenter)                                         *)
(***************************************************************************)
\* one iteration of the loop over lines; st = [files, currentFile, currentDiff]
\* a variant that starts a segment without its marker line
parseDiffFilesStepDroppingMarker(st, line) ==
    IF HasPrefix(line, DiffGit) THEN
        LET saved == IF st.currentFile # <<>> /\ Len(st.currentDiff) > 0
                     THEN Append(st.files, [fileName |-> st.currentFile,
                                            diffText |-> Join(st.currentDiff, NL)])
                     ELSE st.files
            parts == Fields(line)
            cf    == IF Len(parts) >= 4 THEN TrimPrefix(parts[4], <<"b/">>)
                     ELSE st.currentFile
        IN [files |-> saved, currentFile |-> cf, currentDiff |-> <<>>]
    ELSE IF st.currentFile # <<>> THEN [st EXCEPT !.currentDiff = Append(@, line)]
    ELSE st

parseDiffFilesStep(st, line) ==
    IF HasPrefix(line, DiffGit) THEN
        LET saved == IF st.currentFile # <<>> /\ Len(st.currentDiff) > 0
                     THEN Append(st.files, [fileName |-> st.currentFile,
                                            diffText |-> Join(st.currentDiff, NL)])
                     ELSE st.files
            parts == Fields(line)
            cf    == IF Len(parts) >= 4 THEN TrimPrefix(parts[4], <<"b/">>)
                     ELSE st.currentFile
        IN [files |-> saved, currentFile |-> cf, currentDiff |-> <<line>>]
    ELSE IF st.currentFile # <<>> THEN [st EXCEPT !.currentDiff = Append(@, line)]
    ELSE st

RECURSIVE parseDiffFilesLoop(_, _, _)
parseDiffFilesLoop(lines, i, st) ==
    IF i > Len(lines) THEN st
    ELSE parseDiffFilesLoop(lines, i + 1, parseDiffFilesStep(st, lines[i]))

parseDiffFiles(d) ==
    LET st == parseDiffFilesLoop(Split(d, NL), 1,
                  [files |-> <<>>, currentFile |-> <<>>, currentDiff |-> <<>>])
    IN IF st.currentFile # <<>> /\ Len(st.currentDiff) > 0
       THEN Append(st.files, [fileName |-> st.currentFile,
                              diffText |-> Join(st.currentDiff, NL)])
       ELSE st.files

(***************************************************************************)
(* ParseDiffSummary (Diff Summary Parser)                                  *)
(***************************************************************************)
RECURSIVE LastIndexFrom(_, _, _)
\* the greatest i <= from with SubSeq(s, i, i + Len(p) - 1) = p, or 0
LastIndexFrom(s, p, from) ==
    IF from < 1 THEN 0
    ELSE IF from + Len(p) - 1 <= Len(s) /\ SubSeq(s, from, from + Len(p) - 1) = p THEN from
    ELSE LastIndexFrom(s, p, from - 1)

FileRegexHead == DiffGit \o <<SP, "a/">>

\* fileRegex `^diff --git a/(.*) b/(.*)$`: the first group is greedy, so the
\* line is cut at its last " b/"
fileRegexMatches(line) ==
    HasPrefix(line, FileRegexHead)
    /\ LastIndexFrom(line, <<SP, "b/">>, Len(line)) > Len(FileRegexHead)

\* matches[1]
fileRegexGroup1(line) ==
    SubSeq(line, Len(FileRegexHead) + 1, LastIndexFrom(line, <<SP, "b/">>, Len(line)) - 1)

\* addedRegex `^\+[^+].*$`
addedRegexMatch(line) == Len(line) >= 2 /\ line[1] = "+" /\ line[2] # "+"

\* deletedRegex `^-[^-].*$`
deletedRegexMatch(line) == Len(line) >= 2 /\ line[1] = "-" /\ line[2] # "-"

\* one iteration of the loop; st = [Files, cur] with cur = <<>> for a nil
\* currentFile and <<entry>> otherwise
ParseDiffSummaryStep(st, line) ==
    IF fileRegexMatches(line) THEN
        [Files |-> st.Files \o st.cur,
         cur   |-> <<[Name |-> fileRegexGroup1(line), AddedLines |-> 0, DeletedLines |-> 0]>>]
    ELSE IF st.cur # <<>> THEN
        IF addedRegexMatch(line)
        THEN [st EXCEPT !.cur[1].AddedLines = @ + 1]
        ELSE IF deletedRegexMatch(line)
        THEN [st EXCEPT !.cur[1].DeletedLines = @ + 1]
        ELSE st
    ELSE st

RECURSIVE ParseDiffSummaryLoop(_, _, _)
ParseDiffSummaryLoop(lines, i, st) ==
    IF i > Len(lines) THEN st
    ELSE ParseDiffSummaryLoop(lines, i + 1, ParseDiffSummaryStep(st, lines[i]))

ParseDiffSummary(d) ==
    LET st == ParseDiffSummaryLoop(Split(d, NL), 1, [Files |-> <<>>, cur |-> <<>>])
    IN st.Files \o st.cur

(***************************************************************************)
(* Specification of the two diff parsers on bounded inputs                 *)
(***************************************************************************)
DiffIdle ==
    /\ diff = <<>>
    /\ files = <<>>
    /\ diffSummary = <<>>
    /\ parsed = {}

CtxIdle ==
    /\ ctxLines = <<>>
    /\ targetLine = 0
    /\ contextLines = <<>>
    /\ ctxDone = FALSE

ReviewIdle ==
    /\ rpc = "idle"
    /\ fileIdx = 0
    /\ fileReviews = <<>>
    /\ allComments = <<>>
    /\ settled = <<>>
    /\ aiCalls = 0
    /\ aiLog = <<>>
    /\ review = <<>>
    /\ rmState = "reviewStateLoading"
    /\ rmErr = "nil"
    /\ rmReview = <<>>
    /\ program = "none"
    /\ runResult = <<>>
    /\ printed = 0
    /\ warned = 0
    /\ cmdResult = <<>>

GenIdle ==
    /\ genRaw = [err |-> TRUE, Candidates |-> <<>>]
    /\ genRequests = 0
    /\ genResult = <<>>

StreamIdle ==
    /\ toSend = <<>>
    /\ aiErr = FALSE
    /\ pc = "none"
    /\ sub = <<>>
    /\ subClosed = FALSE
    /\ delivered = <<>>
    /\ waiting = 0
    /\ msgs = <<>>
    /\ sState = "reviewStateLoading"
    /\ sReview = <<>>
    /\ sErr = "nil"
    /\ sProgram = "none"
    /\ sRunResult = <<>>
    /\ sPrinted = <<>>

LangIdle ==
    /\ lCmd = "none"
    /\ lFlag = ""
    /\ fileConfig = <<>>
    /\ cfg = <<>>
    /\ lUsed = <<>>

RelIdle ==
    /\ relLines = <<>>
    /\ relComments = <<>>
    /\ relOut = <<>>

LabelIdle ==
    /\ pcComment = [Type |-> "", LineNo |-> 0, Message |-> <<>>]
    /\ pcOut = <<>>

ScrollIdle ==
    /\ scState = "reviewStateLoading"
    /\ reviewLines = <<>>
    /\ scrollOffset = 0
    /\ windowHeight = 0
    /\ scProgram = "none"

SideIdle ==
    /\ LangIdle
    /\ RelIdle
    /\ LabelIdle
    /\ ScrollIdle

FileIdle ==
    /\ sfResp = [kind |-> "error"]
    /\ sfResult = <<>>
    /\ GenIdle
    /\ StreamIdle
    /\ SideIdle

CommitIdle ==
    /\ mState = "stateLoading"
    /\ commitMessage = <<>>
    /\ originalMessage = <<>>
    /\ mErr = "nil"
    /\ textInput = <<>>
    /\ cProgram = "none"
    /\ inFlight = "none"
    /\ pendingMsg = <<>>
    /\ genCalls = 0
    /\ commits = <<>>
    /\ cRunResult = <<>>
    /\ cWarned = 0
    /\ cCmdResult = <<>>
    /\ cPrinted = <<>>

DiffInit ==
    /\ diff \in DiffInputs
    /\ files = <<>>
    /\ diffSummary = <<>>
    /\ parsed = {}
    /\ CtxIdle
    /\ ReviewIdle
    /\ FileIdle
    /\ CommitIdle
    /\ invoked = "none"

\* v.parseDiffFiles(diff)
CallParseDiffFiles ==
    /\ "files" \notin parsed
    /\ files' = parseDiffFiles(diff)
    /\ parsed' = parsed \cup {"files"}
    /\ UNCHANGED <<diff, diffSummary>>
    /\ UNCHANGED <<ctxVars, reviewVars, fileVars, commitVars>>

\* git.ParseDiffSummary(diff)
CallParseDiffSummary ==
    /\ "summary" \notin parsed
    /\ diffSummary' = ParseDiffSummary(diff)
    /\ parsed' = parsed \cup {"summary"}
    /\ UNCHANGED <<diff, files>>
    /\ UNCHANGED <<ctxVars, reviewVars, fileVars, commitVars>>

DiffNext == CallParseDiffFiles \/ CallParseDiffSummary

SpecDiff == DiffInit /\ [][DiffNext]_vars

(***************************************************************************)
(* Reference notions used to state the properties of the parsers           *)
(***************************************************************************)
DiffLines == Split(diff, NL)

\* a line that begins with the `diff --git` marker
BeginsWithMarker(line) == HasPrefix(line, DiffGit)

\* a line of the form `diff --git a/<path> b/<path>`
IsFileMarker(line) ==
    /\ HasPrefix(line, DiffGit \o <<SP, "a/">>)
    /\ \E i \in (Len(DiffGit) + 3)..(Len(line) - 1) : line[i] = SP /\ line[i + 1] = "b/"

\* the <path> after the last " b/" of a marker line, "" when there is none
BPathOf(line) ==
    LET cuts == {i \in 1..(Len(line) - 1) : line[i] = SP /\ line[i + 1] = "b/"}
    IN IF cuts = {} THEN <<>>
       ELSE LET c == CHOOSE i \in cuts : \A j \in cuts : j <= i
            IN SubSeq(line, c + 2, Len(line))

\* the index in lines of the k-th line satisfying P
KthIndex(lines, P(_), k) ==
    CHOOSE i \in 1..Len(lines) :
        P(lines[i]) /\ Cardinality({j \in 1..i : P(lines[j])}) = k

CountLines(lines, P(_)) == Cardinality({i \in 1..Len(lines) : P(lines[i])})

\* the lines of the k-th section: after the k-th line satisfying P, up to the next
SectionIdx(lines, P(_), k) ==
    {i \in 1..Len(lines) : ~P(lines[i]) /\ Cardinality({j \in 1..i : P(lines[j])}) = k}

IsBlank(line) == \A i \in 1..Len(line) : line[i] = SP

RECURSIVE NonBlank(_)
NonBlank(lines) ==
    IF lines = <<>> THEN <<>>
    ELSE IF IsBlank(Head(lines)) THEN NonBlank(Tail(lines))
    ELSE <<Head(lines)>> \o NonBlank(Tail(lines))

SegmentTexts == [k \in 1..Len(files) |-> files[k].diffText]

\* a marker line from which parseDiffFiles can take a file name
HasFourFields(line) == BeginsWithMarker(line) /\ Len(Fields(line)) >= 4

StartsWithOne(line, c) == Len(line) >= 1 /\ line[1] = c /\ (Len(line) = 1 \/ line[2] # c)

(***************************************************************************)
(* C3  parseDiffFiles: a diff with N lines beginning with the `diff --git` *)
(* marker yields exactly N segments, in order, each with a non-empty       *)
(* fileName equal to the b/ path of its marker line.                       *)
(***************************************************************************)
C3_SegmentPerMarker ==
    "files" \in parsed =>
        /\ Len(files) = CountLines(DiffLines, BeginsWithMarker)
        /\ \A k \in 1..Len(files) :
              /\ files[k].fileName # <<>>
              /\ files[k].fileName =
                     BPathOf(DiffLines[KthIndex(DiffLines, BeginsWithMarker, k)])

(***************************************************************************)
(* C4 (as stated)  parseDiffFiles: concatenating the diffText of all       *)
(* segments in order, joined by line breaks, reproduces the content of the *)
(* input diff up to blank lines; no input line is lost.                    *)
(***************************************************************************)
C4_ReconstructsInput ==
    "files" \in parsed =>
        NonBlank(Split(Join(SegmentTexts, NL), NL)) = NonBlank(DiffLines)

\* the name parseDiffFiles holds while it reads line i: the fourth field of the
\* last marker line with four fields at or before i, without its b/ prefix
SectionName(lines, i) ==
    LET ms == {j \in 1..i : HasFourFields(lines[j])}
    IN IF ms = {} THEN <<>>
       ELSE TrimPrefix(Fields(lines[CHOOSE j \in ms : \A k \in ms : k <= j])[4], <<"b/">>)

\* line i lies in a section (from a marker line to the next) that has a name
InNamedSection(lines, i) ==
    /\ \E j \in 1..i : BeginsWithMarker(lines[j])
    /\ SectionName(lines, i) # <<>>

RECURSIVE LinesInNamedSections(_, _)
LinesInNamedSections(lines, i) ==
    IF i > Len(lines) THEN <<>>
    ELSE (IF InNamedSection(lines, i) THEN <<lines[i]>> ELSE <<>>)
            \o LinesInNamedSections(lines, i + 1)

(***************************************************************************)
(* C4 (amended)  parseDiffFiles: the segments' diffText, joined by line    *)
(* breaks in order, is exactly the lines of the input that lie in a named  *)
(* section, each named section being one segment; the lines before the     *)
(* first marker and the lines of a section without a name belong to no     *)
(* segment.  A non-empty input is reproduced as a whole exactly when every *)
(* line of it lies in a named section.                                     *)
(***************************************************************************)
C4_ReconstructsNamedSections ==
    "files" \in parsed =>
        LET kept == LinesInNamedSections(DiffLines, 1)
        IN /\ Join(SegmentTexts, NL) = Join(kept, NL)
           /\ Len(files) = Cardinality({i \in 1..Len(DiffLines) :
                                BeginsWithMarker(DiffLines[i]) /\ InNamedSection(DiffLines, i)})
           /\ \A k \in 1..Len(files) :
                 CountLines(Split(files[k].diffText, NL), BeginsWithMarker) = 1
           /\ diff # <<>> =>
                 (Join(SegmentTexts, NL) = diff
                    <=> \A i \in 1..Len(DiffLines) : InNamedSection(DiffLines, i))

\* two segments were cut out of a diff that starts with lines outside any file
C4_Witness ==
    /\ "files" \in parsed
    /\ Len(files) = 2
    /\ ~BeginsWithMarker(DiffLines[1])
    /\ DiffLines[1] # <<>>

(***************************************************************************)
(* C5  ParseDiffSummary: for every file entry, AddedLines is the number of *)
(* lines of the file's section (from its `diff --git a/<path> b/<path>`    *)
(* marker to the next) that start with exactly one `+`, DeletedLines the   *)
(* number that start with exactly one `-`; `+++`/`---` lines never count.  *)
(***************************************************************************)
C5_CountsAddedAndDeleted ==
    "summary" \in parsed =>
        /\ Len(diffSummary) = CountLines(DiffLines, IsFileMarker)
        /\ \A k \in 1..Len(diffSummary) :
              LET sec == SectionIdx(DiffLines, IsFileMarker, k)
              IN /\ diffSummary[k].AddedLines =
                        Cardinality({i \in sec : StartsWithOne(DiffLines[i], "+")})
                 /\ diffSummary[k].DeletedLines =
                        Cardinality({i \in sec : StartsWithOne(DiffLines[i], "-")})

(***************************************************************************)
(* Line-Context Extractor: getCodeContextForLine                           *)
(***************************************************************************)
contextWindow == 3

abs(x) == IF x < 0 THEN -x ELSE x

Digits == {"0", "1", "2", "3", "4", "5", "6", "7", "8", "9"}

DigitVal(c) ==
    CASE c = "0" -> 0 [] c = "1" -> 1 [] c = "2" -> 2 [] c = "3" -> 3 [] c = "4" -> 4
      [] c = "5" -> 5 [] c = "6" -> 6 [] c = "7" -> 7 [] c = "8" -> 8 [] c = "9" -> 9

RECURSIVE ScanDigits(_, _, _)
\* the leading digits of s from position i: [n |-> digits read, v |-> their value]
ScanDigits(s, i, acc) ==
    IF i <= Len(s) /\ s[i] \in Digits
    THEN ScanDigits(s, i + 1, [n |-> acc.n + 1, v |-> acc.v * 10 + DigitVal(s[i])])
    ELSE acc

\* fmt.Sscanf(str, "%d", &x) on an unsigned text: [ok, v]; x is left alone on failure
Sscanf(str) ==
    LET r == ScanDigits(str, 1, [n |-> 0, v |-> 0])
    IN [ok |-> r.n >= 1, v |-> r.v]

\* strings.Index(s, ","), 0 when absent (positions count from 1)
IndexOf(s, c) ==
    IF \E i \in 1..Len(s) : s[i] = c
    THEN CHOOSE i \in 1..Len(s) : s[i] = c /\ \A j \in 1..(i - 1) : s[j] # c
    ELSE 0

\* the value of currentLineNum after a hunk header line was read
\* (tui.go: "Extract starting line number"), given its value before
hunkStartCounter(line, currentLineNum) ==
    LET parts == Fields(line)
    IN IF Len(parts) >= 3 /\ HasPrefix(parts[3], <<"+">>)
       THEN LET np1 == TrimPrefix(parts[3], <<"+">>)
                commaIdx == IndexOf(np1, ",")
                newPart == IF commaIdx >= 1 THEN SubSeq(np1, 1, commaIdx - 1) ELSE np1
                sc == Sscanf(newPart)
            IN IF sc.ok THEN sc.v - 1 ELSE currentLineNum
       ELSE currentLineNum

IsHeaderLine(line) ==
    \/ HasPrefix(line, DiffGit)
    \/ HasPrefix(line, <<"index">>)
    \/ HasPrefix(line, <<"+", "+", "+">>)
    \/ HasPrefix(line, <<"-", "-", "-">>)

IsHunkHeader(line) == HasPrefix(line, <<"@@">>)

\* "End of hunk": line i is the last line or the next line starts a hunk or a file
EndOfHunk(lines, i) ==
    \/ i = Len(lines)
    \/ (i + 1 <= Len(lines)
        /\ (IsHunkHeader(lines[i + 1]) \/ HasPrefix(lines[i + 1], DiffGit)))

RECURSIVE hunkContainsTarget(_, _, _, _)
\* the look-ahead loop "Check if this hunk contains our target line", from line j
hunkContainsTarget(lines, j, tempLineNum, target) ==
    IF j > Len(lines) THEN FALSE
    ELSE IF IsHunkHeader(lines[j]) \/ HasPrefix(lines[j], DiffGit) THEN FALSE
    ELSE LET t == IF ~HasPrefix(lines[j], <<"-">>) THEN tempLineNum + 1 ELSE tempLineNum
         IN IF abs(t - target) <= contextWindow THEN TRUE
            ELSE hunkContainsTarget(lines, j + 1, t, target)

\* the lipgloss style a returned line is rendered with
StyleOf(line) ==
    IF HasPrefix(line, <<"+">>) /\ ~HasPrefix(line, <<"+", "+", "+">>) THEN "added"
    ELSE IF HasPrefix(line, <<"-">>) /\ ~HasPrefix(line, <<"-", "-", "-">>) THEN "deleted"
    ELSE "plain"

\* One iteration of the loop of getCodeContextForLine.
\* st = [result, currentLineNum, inHunk]; an element of result is the rendered
\* line [style, text] together with at, the index of the input line it renders
\* (at is not program state: it lets properties name the returned lines).
getCodeContextStep(lines, target, st, i) ==
    LET line == lines[i]
    IN IF IsHeaderLine(line) THEN st
       ELSE IF IsHunkHeader(line) THEN
           LET cur == hunkStartCounter(line, st.currentLineNum)
           IN [result |-> IF hunkContainsTarget(lines, i + 1, cur, target)
                          THEN Append(st.result, [style |-> "title", text |-> line, at |-> i])
                          ELSE st.result,
               currentLineNum |-> cur,
               inHunk |-> TRUE]
       ELSE IF st.inHunk THEN
           LET cur == IF ~HasPrefix(line, <<"-">>) THEN st.currentLineNum + 1
                      ELSE st.currentLineNum
           IN [result |-> IF abs(cur - target) <= contextWindow
                          THEN Append(st.result,
                                      [style |-> StyleOf(line), text |-> line, at |-> i])
                          ELSE st.result,
               currentLineNum |-> cur,
               inHunk |-> ~EndOfHunk(lines, i)]
       ELSE st

RECURSIVE getCodeContextLoop(_, _, _, _)
getCodeContextLoop(lines, target, st, i) ==
    IF i > Len(lines) THEN st
    ELSE getCodeContextLoop(lines, target, getCodeContextStep(lines, target, st, i), i + 1)

getCodeContextForLine(lines, target) ==
    getCodeContextLoop(lines, target,
        [result |-> <<>>, currentLineNum |-> 0, inHunk |-> FALSE], 1).result

(***************************************************************************)
(* Inputs of the extractor: one hunk, its header and up to MaxBody lines   *)
(***************************************************************************)
\* "@@ -1,3 +<n>,3 @@" for a one-digit n
HunkHeader(n) == <<"@@", SP, "-", "1", ",", "3", SP, "+", n, ",", "3", SP, "@@">>

HunkHeaders ==
    { HunkHeader("1"),
      HunkHeader("5"),
      <<"@@", SP, "-", "1", SP, "@@">> }    \* no new-file range: cannot be parsed

BodyLines ==
    { <<SP, "t">>,                  \* context line
      <<"+", "t">>,                 \* added line
      <<"-", "t">>,                 \* deleted line
      <<"-", "-", "-", "t">>,       \* deleted line whose text starts with "--"
      <<"+", "+", "+", "t">> }      \* added line whose text starts with "++"

CtxInputs == {<<h>> \o b : h \in HunkHeaders, b \in SeqsUpTo(BodyLines, MaxBody)}

CtxInit ==
    /\ ctxLines \in CtxInputs
    /\ targetLine \in 1..MaxTarget
    /\ contextLines = <<>>
    /\ ctxDone = FALSE
    /\ DiffIdle
    /\ ReviewIdle
    /\ FileIdle
    /\ CommitIdle
    /\ invoked = "none"

\* printCodeContext: contextLines := m.getCodeContextForLine(lines, targetLine)
CallGetCodeContextForLine ==
    /\ ~ctxDone
    /\ contextLines' = getCodeContextForLine(ctxLines, targetLine)
    /\ ctxDone' = TRUE
    /\ UNCHANGED <<ctxLines, targetLine>>
    /\ UNCHANGED <<diffVars, reviewVars, fileVars, commitVars>>

CtxNext == CallGetCodeContextForLine

SpecCtx == CtxInit /\ [][CtxNext]_vars

(***************************************************************************)
(* Reference numbering of the lines of a hunk                              *)
(***************************************************************************)
\* the index of the hunk header that owns line i, 0 when there is none
HeaderOf(lines, i) ==
    LET hs == {j \in 1..(i - 1) : IsHunkHeader(lines[j])}
    IN IF hs = {} THEN 0 ELSE CHOOSE j \in hs : \A k \in hs : k <= j

\* a body line of a hunk
IsBodyLine(lines, i) ==
    /\ ~IsHunkHeader(lines[i])
    /\ HeaderOf(lines, i) > 0
    /\ \A j \in HeaderOf(lines, i)..i : ~HasPrefix(lines[j], DiffGit)

\* the header states where the new file's lines start
Parseable(header) ==
    /\ Len(Fields(header)) >= 3
    /\ HasPrefix(Fields(header)[3], <<"+">>)
    /\ Len(Fields(header)[3]) >= 2
    /\ Fields(header)[3][2] \in Digits

NewStart(header) == ScanDigits(Fields(header)[3], 2, [n |-> 0, v |-> 0]).v

IsDeletion(line) == Len(line) >= 1 /\ line[1] = "-"

\* new-file line number of body line i: the hunk's lines that are not deletions
\* are numbered from newStart; a deletion has the number of the line before it
NewLineNo(lines, i) ==
    LET h == HeaderOf(lines, i)
    IN NewStart(lines[h]) - 1
         + Cardinality({j \in (h + 1)..i : ~IsDeletion(lines[j])})

Returned(out) == {out[k].at : k \in 1..Len(out)}

(***************************************************************************)
(* C6  getCodeContextForLine: in a hunk with a parseable header, a body    *)
(* line is returned if and only if its new-file line number n satisfies    *)
(* |n - targetLine| <= 3.                                                  *)
(***************************************************************************)
C6_WindowOfThree ==
    ctxDone =>
        \A i \in 1..Len(ctxLines) :
            (IsBodyLine(ctxLines, i) /\ Parseable(ctxLines[HeaderOf(ctxLines, i)])) =>
                (i \in Returned(contextLines)
                    <=> abs(NewLineNo(ctxLines, i) - targetLine) <= contextWindow)

(***************************************************************************)
(* The AI collaborator's responses                                         *)
(*                                                                         *)
(* A response is [kind], kind one of "error" (GenerateContent failed),     *)
(* "noCandidates", "noParts", "emptyText", or [kind |-> "text", text].     *)
(* The text of a review response is [lead, fence, closed, valid, comments]:*)
(* optional leading white space, an opening fence ("json" for ```json,     *)
(* "bare" for ```, "none"), an optional closing ```, and between them      *)
(* either the JSON object {"comments": comments} or something else.        *)
(***************************************************************************)
Categories == {"must", "want", "nits", "fyi", "imo"}

MkComment(fileName, lineNo, type) ==
    [fileName |-> fileName, lineNo |-> lineNo, type |-> type, message |-> "m"]

\* n comments of one type; the first one is file-level (lineNo 0)
UniformComments(fileName, type, n) ==
    [k \in 1..n |-> MkComment(fileName, k - 1, type)]

ReviewText(lead, fence, closed, valid, comments) ==
    [lead |-> lead, fence |-> fence, closed |-> closed, valid |-> valid,
     comments |-> comments]

FailedResponses ==
    {[kind |-> "error"], [kind |-> "noCandidates"], [kind |-> "noParts"],
     [kind |-> "emptyText"]}

TextResponse(t) == [kind |-> "text", text |-> t]

IsSpace(c) == c = SP \/ c = NL

RECURSIVE TrimLeft(_)
TrimLeft(s) == IF s # <<>> /\ IsSpace(Head(s)) THEN TrimLeft(Tail(s)) ELSE s

RECURSIVE TrimRight(_)
TrimRight(s) ==
    IF s # <<>> /\ IsSpace(s[Len(s)]) THEN TrimRight(SubSeq(s, 1, Len(s) - 1)) ELSE s

\* strings.TrimSpace on a text of atoms
TrimSpace(s) == TrimRight(TrimLeft(s))

(***************************************************************************)
(* reviewSingleFile                                                        *)
(***************************************************************************)
\* json.Unmarshal([]byte(text), &result): white space around the object is
\* accepted, a fence is not
jsonUnmarshal(t) ==
    [ok |-> t.fence = "none" /\ ~t.closed /\ t.valid, comments |-> t.comments]

\* a variant of the fallback that leaves the text as it is
keepMarkdown(t) == t

\* the fallback: TrimSpace, and under a "```json" prefix TrimPrefix, TrimSuffix
\* "```" and TrimSpace again
stripMarkdown(t) ==
    LET trimmed == [t EXCEPT !.lead = FALSE]
    IN IF trimmed.fence = "json"
       THEN [trimmed EXCEPT !.fence = "none", !.closed = FALSE]
       ELSE trimmed

\* result.Comments as stored in the FileReview
storedComments(comments) == comments

\* [ok, err, fr, parses]: fr = <<FileReview>> when ok; parses is the number of
\* calls of json.Unmarshal made on the way (history, not part of the result)
reviewSingleFile(fileName, diffText, resp) ==
    LET fail(e, n) == [ok |-> FALSE, err |-> e, fr |-> <<>>, parses |-> n]
        done(cs, n) == [ok |-> TRUE, err |-> "nil",
                        fr |-> <<[FileName |-> fileName, DiffText |-> diffText,
                                  Comments |-> storedComments(cs)]>>,
                        parses |-> n]
    IN CASE resp.kind = "error" -> fail("failed to generate file review", 0)
         [] resp.kind = "noCandidates" -> fail("no candidates in response", 0)
         [] resp.kind = "noParts" -> fail("no content parts in response", 0)
         [] resp.kind = "emptyText" -> fail("empty text in response part", 0)
         [] resp.kind = "text" ->
              LET first == jsonUnmarshal(resp.text)
                  second == jsonUnmarshal(stripMarkdown(resp.text))
              IN IF first.ok THEN done(first.comments, 1)
                 ELSE IF second.ok THEN done(second.comments, 2)
                 ELSE fail("failed to parse JSON response", 2)

(***************************************************************************)
(* generateReviewSummary                                                   *)
(***************************************************************************)
NoIssuesSummary == <<"No significant issues found in the code changes.">>
FailedSummary == <<"Failed to generate summary">>

\* whether a request is sent: not under `if len(comments) == 0 { return ... }`
\* a variant that asks for a summary even when there is no comment
summaryAlwaysCalls(comments) == TRUE

summaryNeedsCall(comments) == Len(comments) # 0

\* the numbers generateReviewSummary puts into its prompt: the three counters
\* of its `switch comment.Type` and len(comments)
summaryCounts(comments) ==
    LET count(t) == Cardinality({k \in 1..Len(comments) : comments[k].type = t})
    IN [mustCount |-> count("must"), wantCount |-> count("want"),
        nitsCount |-> count("nits"), total |-> Len(comments)]

\* [summary, err], given the response to the request when one is sent
generateReviewSummary(comments, resp) ==
    IF ~summaryNeedsCall(comments) THEN [summary |-> NoIssuesSummary, err |-> "nil"]
    ELSE CASE resp.kind = "error" -> [summary |-> <<>>, err |-> "failed to generate summary"]
           [] resp.kind = "noCandidates" -> [summary |-> <<>>, err |-> "no candidates in response"]
           [] resp.kind = "noParts" -> [summary |-> <<>>, err |-> "no content parts in response"]
           [] resp.kind = "emptyText" -> [summary |-> TrimSpace(<<>>), err |-> "nil"]
           [] resp.kind = "text" -> [summary |-> TrimSpace(resp.text), err |-> "nil"]

(***************************************************************************)
(* ReviewCodeStructured, one step per request to the AI collaborator       *)
(***************************************************************************)
\* the body of `for _, file := range files` after reviewSingleFile returned r:
\* acc = [fileReviews, allComments]
\* a variant that aborts the review at the first failed file
reviewLoopBodyAborting(acc, r) ==
    IF ~r.ok THEN [fileReviews |-> <<>>, allComments |-> <<>>]
    ELSE [fileReviews |-> Append(acc.fileReviews, r.fr[1]),
          allComments |-> acc.allComments \o r.fr[1].Comments]

reviewLoopBody(acc, r) ==
    IF ~r.ok THEN acc
    ELSE [fileReviews |-> Append(acc.fileReviews, r.fr[1]),
          allComments |-> acc.allComments \o r.fr[1].Comments]

\* inputs of the review: diffs of up to MaxFiles files, in path order
ReviewPaths == <<"w", "x", "y", "z">>

FileBlock(p) == <<MarkerLine(<<p>>), HunkHeader("1"), <<"+", "t">>>>

RECURSIVE BlocksOf(_, _)
BlocksOf(S, i) ==
    IF i > Len(ReviewPaths) THEN <<>>
    ELSE (IF i \in S THEN FileBlock(ReviewPaths[i]) ELSE <<>>) \o BlocksOf(S, i + 1)

ReviewDiffs ==
    {Join(BlocksOf(S, 1), NL) :
        S \in {T \in SUBSET (1..Len(ReviewPaths)) : Cardinality(T) <= MaxFiles}}

ReviewTypes == {"must", "blocker"}

\* what the AI may answer to the request for one file
FileResponses(fileName) ==
    FailedResponses
    \cup {TextResponse(ReviewText(FALSE, "none", FALSE, FALSE, <<>>))}
    \cup {TextResponse(ReviewText(FALSE, "none", FALSE, TRUE, UniformComments(fileName, t, n))) :
            t \in ReviewTypes, n \in 0..MaxComments}
    \cup {TextResponse(ReviewText(TRUE, "json", TRUE, TRUE, UniformComments(fileName, "must", 1)))}

SummaryResponses ==
    FailedResponses
    \cup {TextResponse(<<"summary">>), TextResponse(<<SP, "summary", NL>>)}

Alive == cmdResult = <<>>

\* files := v.parseDiffFiles(diff)
RvParse ==
    /\ Alive /\ rpc = "start"
    /\ files' = parseDiffFiles(diff)
    /\ rpc' = "loop"
    /\ UNCHANGED <<diff, diffSummary, parsed, ctxVars, tuiVars>>
    /\ UNCHANGED <<fileIdx, fileReviews, allComments, settled, aiCalls, aiLog, review>>
    /\ UNCHANGED <<fileVars, commitVars>>

\* a variant that keeps whatever generateReviewSummary returned
summaryAsReturned(g) == g.summary

\* `if err != nil { summary = "Failed to generate summary" }`
summaryOrFallback(g) == IF g.err # "nil" THEN FailedSummary ELSE g.summary

\* a variant of the loop that steps over every second file
nextFileSkipping(i) == i + 2

\* `for _, file := range files`: the index of the file after the i-th
nextFile(i) == i + 1

\* a variant of the loop that ends after the first file
rangeDoneEarly(i, fs) == i >= 1 \/ Len(fs) = 0

\* `for _, file := range files`: the loop has gone through every file
rangeDone(i, fs) == i >= Len(fs)

\* one iteration of the loop: the request for the next file and its outcome
RvReviewFile ==
    /\ Alive /\ rpc = "loop" /\ ~rangeDone(fileIdx, files)
    /\ LET file == files[fileIdx + 1]
       IN \E resp \in FileResponses(file.fileName) :
            LET r == reviewSingleFile(file.fileName, file.diffText, resp)
                acc == reviewLoopBody([fileReviews |-> fileReviews,
                                       allComments |-> allComments], r)
            IN /\ fileReviews' = acc.fileReviews
               /\ allComments' = acc.allComments
               /\ settled' = Append(settled, r.ok)
               /\ aiLog' = Append(aiLog, [to |-> "file", idx |-> fileIdx + 1, ok |-> r.ok,
                                          comments |-> IF r.ok THEN r.fr[1].Comments
                                                       ELSE <<>>])
    /\ aiCalls' = aiCalls + 1
    /\ fileIdx' = nextFile(fileIdx)
    /\ UNCHANGED <<rpc, review, diffVars, ctxVars, tuiVars>>
    /\ UNCHANGED <<fileVars, commitVars>>

\* after the loop: generateReviewSummary and the return
RvSummary ==
    /\ Alive /\ rpc = "loop" /\ rangeDone(fileIdx, files)
    /\ \/ /\ ~summaryNeedsCall(allComments)
          /\ review' = <<[review |-> [Summary |-> generateReviewSummary(allComments,
                                                     [kind |-> "error"]).summary,
                                      FileReviews |-> fileReviews],
                          err |-> "nil"]>>
          /\ UNCHANGED <<aiCalls, aiLog>>
       \/ /\ summaryNeedsCall(allComments)
          /\ \E resp \in SummaryResponses :
                LET g == generateReviewSummary(allComments, resp)
                IN /\ review' = <<[review |-> [Summary |-> summaryOrFallback(g),
                                               FileReviews |-> fileReviews],
                                   err |-> "nil"]>>
                   /\ aiLog' = Append(aiLog, [to |-> "summary", idx |-> Len(settled),
                                              ok |-> g.err = "nil",
                                              comments |-> allComments,
                                              counts |-> summaryCounts(allComments)])
          /\ aiCalls' = aiCalls + 1
    /\ rpc' = "returned"
    /\ UNCHANGED <<fileIdx, fileReviews, allComments, settled, diffVars, ctxVars, tuiVars>>
    /\ UNCHANGED <<fileVars, commitVars>>

\* a variant in which the commands never see an empty diff
noChangesNever(d) == FALSE

\* `if diff == ""` of the commands
noChanges(d) == d = <<>>

(***************************************************************************)
(* The review command and the review TUI                                   *)
(***************************************************************************)
\* runReview up to reviewTUI.Run(): the empty diff, the AI client, NewReviewTUI
\* and reviewModel.Init, which starts generateStructuredReview
RunReviewStart ==
    /\ invoked = "review"
    /\ Alive /\ program = "none"
    /\ IF noChanges(diff)
       THEN /\ warned' = warned + 1
            /\ cmdResult' = <<"nil">>
            /\ UNCHANGED <<program, rpc>>
       ELSE \E clientErr \in {"nil", "failed to create AI client"} :
            IF clientErr # "nil"
            THEN /\ cmdResult' = <<clientErr>>
                 /\ UNCHANGED <<program, rpc, warned>>
            ELSE /\ program' = "running"
                 /\ rpc' = "start"
                 /\ UNCHANGED <<warned, cmdResult>>
    /\ diffSummary' = IF program' = "running" THEN ParseDiffSummary(diff) ELSE diffSummary
    /\ UNCHANGED <<fileIdx, fileReviews, allComments, settled, aiCalls, aiLog, review>>
    /\ UNCHANGED <<rmState, rmErr, rmReview, runResult, printed, ctxVars>>
    /\ UNCHANGED <<diff, files, parsed>>
    /\ UNCHANGED <<fileVars, commitVars>>

\* reviewModel.Update(tea.KeyMsg) in reviewStateLoading with "q" or "ctrl+c"
UpdateReviewKeyQuit ==
    /\ program = "running" /\ rmState = "reviewStateLoading"
    /\ program' = "quit"
    /\ UNCHANGED <<rmState, rmErr, rmReview, runResult, printed, warned, cmdResult>>
    /\ UNCHANGED <<aiVars, diffVars, ctxVars>>
    /\ UNCHANGED <<fileVars, commitVars>>

\* a variant of Update that returns no command for the result message
afterGeneratedKeepsRunning(state) == "running"

\* `return m, tea.Quit` for msgStructuredReviewGenerated, in either state
afterGenerated(state) == "quit"

\* reviewModel.Update(msgStructuredReviewGenerated)
UpdateReviewGenerated ==
    /\ program = "running" /\ rpc = "returned"
    /\ IF review[1].err # "nil"
       THEN /\ rmErr' = review[1].err
            /\ rmState' = "reviewStateError"
            /\ UNCHANGED rmReview
       ELSE /\ rmReview' = <<review[1].review>>
            /\ rmState' = "reviewStateDisplay"
            /\ UNCHANGED rmErr
    /\ program' = afterGenerated(rmState')
    /\ UNCHANGED <<runResult, printed, warned, cmdResult, aiVars, diffVars, ctxVars>>
    /\ UNCHANGED <<fileVars, commitVars>>

\* a variant of reviewModel.Run that prints whenever there is no error
hasReviewAlways(rev) == TRUE

\* `if m.structuredReview != nil`
hasReview(rev) == rev # <<>>

\* reviewModel.Run after p.Run() returned progErr
ReviewRunReturns ==
    /\ program = "quit"
    /\ \E progErr \in {"nil", "program error"} :
         IF rmErr # "nil"
         THEN /\ runResult' = <<[text |-> "", err |-> rmErr]>>
              /\ UNCHANGED printed
         ELSE IF hasReview(rmReview)
         THEN /\ printed' = printed + 1
              /\ runResult' = <<[text |-> "Review completed", err |-> progErr]>>
         ELSE /\ runResult' = <<[text |-> "", err |-> progErr]>>
              /\ UNCHANGED printed
    /\ program' = "returned"
    /\ UNCHANGED <<rmState, rmErr, rmReview, warned, cmdResult, aiVars, diffVars, ctxVars>>
    /\ UNCHANGED <<fileVars, commitVars>>

\* runReview after reviewTUI.Run() returned
RunReviewEnd ==
    /\ Alive /\ program = "returned"
    /\ cmdResult' = <<IF runResult[1].err # "nil"
                      THEN "failed to generate code review" ELSE "nil">>
    /\ UNCHANGED <<rmState, rmErr, rmReview, program, runResult, printed, warned>>
    /\ UNCHANGED <<aiVars, diffVars, ctxVars>>
    /\ UNCHANGED <<fileVars, commitVars>>

\* main: os.Exit(1) when the command returned an error
ExitStatus(result) == IF result[1] = "nil" THEN 0 ELSE 1

ReviewInit ==
    /\ diff \in ReviewDiffs
    /\ files = <<>>
    /\ diffSummary = <<>>
    /\ parsed = {}
    /\ CtxIdle
    /\ ReviewIdle
    /\ FileIdle
    /\ CommitIdle
    /\ invoked = "review"

ReviewNext ==
    \/ RunReviewStart
    \/ RvParse
    \/ RvReviewFile
    \/ RvSummary
    \/ UpdateReviewKeyQuit
    \/ UpdateReviewGenerated
    \/ ReviewRunReturns
    \/ RunReviewEnd

SpecReview == ReviewInit /\ [][ReviewNext]_vars

(***************************************************************************)
(* Properties of ReviewCodeStructured                                      *)
(***************************************************************************)
RECURSIVE SucceededFrom(_)
\* [FileName, DiffText] of the segments i..Len(settled) whose review succeeded
SucceededFrom(i) ==
    IF i > Len(settled) THEN <<>>
    ELSE (IF settled[i]
          THEN <<[FileName |-> files[i].fileName, DiffText |-> files[i].diffText]>>
          ELSE <<>>) \o SucceededFrom(i + 1)

Returned_FileReviews == review[1].review.FileReviews

ReviewedSegments ==
    [k \in 1..Len(Returned_FileReviews) |->
        [FileName |-> Returned_FileReviews[k].FileName,
         DiffText |-> Returned_FileReviews[k].DiffText]]

(***************************************************************************)
(* C1  ReviewCodeStructured: whatever the outcome of each file's request,  *)
(* every segment is attempted, no error is returned, and fileReviews is    *)
(* exactly the list of the segments whose review succeeded, in the order   *)
(* of the diff.                                                            *)
(***************************************************************************)
C1_FailuresAreSkippedInOrder ==
    rpc = "returned" =>
        /\ review[1].err = "nil"
        /\ Len(settled) = Len(files)
        /\ ReviewedSegments = SucceededFrom(1)

\* three files, the second of which failed
C1_Witness ==
    /\ rpc = "returned"
    /\ settled = <<TRUE, FALSE, TRUE>>
    /\ Len(Returned_FileReviews) = 2

(***************************************************************************)
(* C2  ReviewCodeStructured: when no file review holds a comment, the      *)
(* summary is the fixed "no significant issues" text and the number of AI  *)
(* requests equals the number of file segments.                            *)
(***************************************************************************)
C2_NoCommentsNoSummaryCall ==
    (rpc = "returned"
        /\ \A k \in 1..Len(Returned_FileReviews) : Returned_FileReviews[k].Comments = <<>>) =>
        /\ review[1].review.Summary = NoIssuesSummary
        /\ aiCalls = Len(files)

\* two files reviewed, both without comments
C2_Witness ==
    /\ rpc = "returned"
    /\ settled = <<TRUE, TRUE>>
    /\ \A k \in 1..Len(Returned_FileReviews) : Returned_FileReviews[k].Comments = <<>>
    /\ aiCalls = 2

(***************************************************************************)
(* C7  In every StructuredReview returned by ReviewCodeStructured the type *)
(* of every comment is one of must, want, nits, fyi, imo.                  *)
(***************************************************************************)
C7_TypeIsACategory ==
    rpc = "returned" =>
        \A k \in 1..Len(Returned_FileReviews) :
            \A j \in 1..Len(Returned_FileReviews[k].Comments) :
                Returned_FileReviews[k].Comments[j].type \in Categories

(***************************************************************************)
(* C9  When the diff has at least one segment and every per-file review    *)
(* fails, ReviewCodeStructured returns an error, and the review command    *)
(* ends with an error (exit status 1).                                     *)
(***************************************************************************)
C9_AllFailedIsFatal ==
    (rpc = "returned" /\ Len(files) >= 1 /\ \A i \in 1..Len(settled) : ~settled[i]) =>
        /\ review[1].err # "nil"
        /\ (cmdResult # <<>> /\ program = "returned" /\ rmReview # <<>>
                => ExitStatus(cmdResult) = 1)

(***************************************************************************)
(* reviewSingleFile on every shape of response                             *)
(***************************************************************************)
MaxCommentsPerFile == 5

AITypes == Categories \cup {"MUST", "blocker"}

\* lineNo is a JSON number decoded into an int: the AI may send a negative one
WideCommentLists ==
    {UniformComments("x", t, n) : t \in AITypes, n \in 0..MaxFileComments}
    \cup {<<MkComment("x", -1, "must")>>,
          <<MkComment("x", 2, "want"), MkComment("x", -1, "nits")>>}

WideFileResponses ==
    FailedResponses
    \cup {TextResponse(ReviewText(lead, fence, closed, TRUE, cs)) :
            lead \in BOOLEAN, fence \in {"none", "json", "bare"}, closed \in BOOLEAN,
            cs \in WideCommentLists}
    \cup {TextResponse(ReviewText(lead, fence, closed, FALSE, <<>>)) :
            lead \in BOOLEAN, fence \in {"none", "json", "bare"}, closed \in BOOLEAN}

FileInit ==
    /\ sfResp \in WideFileResponses
    /\ sfResult = <<>>
    /\ GenIdle
    /\ StreamIdle
    /\ SideIdle
    /\ DiffIdle
    /\ CtxIdle
    /\ ReviewIdle
    /\ CommitIdle
    /\ invoked = "none"

\* v.reviewSingleFile(ctx, "x", diffText)
CallReviewSingleFile ==
    /\ sfResult = <<>>
    /\ sfResult' = <<reviewSingleFile(<<"x">>, Join(FileBlock("x"), NL), sfResp)>>
    /\ UNCHANGED <<sfResp, genVars, streamVars, sideVars, diffVars, ctxVars, reviewVars, commitVars>>

FileNext == CallReviewSingleFile

SpecFile == FileInit /\ [][FileNext]_vars

(***************************************************************************)
(* C8  Every FileReview produced by reviewSingleFile holds at most 5       *)
(* comments, in the order of the AI response.                              *)
(***************************************************************************)
C8_AtMostFiveComments ==
    (sfResult # <<>> /\ sfResult[1].ok) =>
        LET cs == sfResult[1].fr[1].Comments
        IN /\ Len(cs) <= MaxCommentsPerFile
           /\ cs = SubSeq(sfResp.text.comments, 1, Len(cs))

(***************************************************************************)
(* GenerateCommitMessage and the commit TUI                                *)
(***************************************************************************)
\* [message, err]
GenerateCommitMessage(resp) ==
    CASE resp.kind = "error" -> [message |-> <<>>, err |-> "failed to generate commit message"]
      [] resp.kind = "noCandidates" -> [message |-> <<>>, err |-> "no candidates in response"]
      [] resp.kind = "noParts" -> [message |-> <<>>, err |-> "no content parts in response"]
      [] resp.kind = "emptyText" -> [message |-> <<>>, err |-> "empty text in response part"]
      [] resp.kind = "text" -> [message |-> resp.text, err |-> "nil"]

CommitResponses ==
    FailedResponses
    \cup {TextResponse(<<"feat">>), TextResponse(<<SP, "feat", NL>>), TextResponse(<<SP>>)}

CommitDiffs == {<<>>, Join(FileBlock("x"), NL)}

TypedAtoms == {"e", SP}

CAlive == cCmdResult = <<>>

NoMsg == <<>>

CommitInvocations == {"commit", "commit --dry-run", "commit --yes", "message"}

OtherFrame == UNCHANGED <<diff, files, parsed, ctxVars, reviewVars, fileVars, invoked>>

\* runCommit without --dry-run and --yes, up to tui.Run(): the empty diff, the AI
\* client, NewTUI and model.Init, which starts generateCommitMessage
RunCommitStart ==
    /\ invoked = "commit"
    /\ CAlive /\ cProgram = "none"
    /\ IF noChanges(diff)
       THEN /\ cWarned' = cWarned + 1
            /\ cCmdResult' = <<"nil">>
            /\ UNCHANGED <<cProgram, inFlight, diffSummary>>
       ELSE \E clientErr \in {"nil", "failed to create AI client"} :
            IF clientErr # "nil"
            THEN /\ cCmdResult' = <<clientErr>>
                 /\ UNCHANGED <<cProgram, inFlight, cWarned, diffSummary>>
            ELSE /\ cProgram' = "running"
                 /\ inFlight' = "generate"
                 /\ diffSummary' = ParseDiffSummary(diff)
                 /\ UNCHANGED <<cWarned, cCmdResult>>
    /\ UNCHANGED <<modelVars, pendingMsg, genCalls, commits, cRunResult, cPrinted>>
    /\ OtherFrame

\* runCommit --dry-run, from its first line to its return
RunCommitDryRun ==
    /\ invoked = "commit --dry-run"
    /\ CAlive
    /\ IF noChanges(diff)
       THEN /\ cWarned' = cWarned + 1
            /\ cCmdResult' = <<"no staged changes">>
            /\ UNCHANGED <<genCalls, cPrinted, diffSummary>>
       ELSE \E clientErr \in {"nil", "failed to create AI client"} :
            IF clientErr # "nil"
            THEN /\ cCmdResult' = <<clientErr>>
                 /\ UNCHANGED <<genCalls, cPrinted, cWarned, diffSummary>>
            ELSE \E quiet \in BOOLEAN, resp \in CommitResponses :
                 LET g == GenerateCommitMessage(resp)
                 IN /\ diffSummary' = IF quiet THEN diffSummary ELSE ParseDiffSummary(diff)
                    /\ genCalls' = genCalls + 1
                    /\ IF g.err # "nil"
                       THEN /\ cCmdResult' = <<"failed to generate commit message">>
                            /\ UNCHANGED cPrinted
                       ELSE /\ cPrinted' = Append(cPrinted, g.message)
                            /\ cCmdResult' = <<"nil">>
                    /\ UNCHANGED cWarned
    /\ UNCHANGED <<modelVars, cProgram, inFlight, pendingMsg, commits, cRunResult>>
    /\ OtherFrame

\* runCommit --yes, from its first line to its return
RunCommitYes ==
    /\ invoked = "commit --yes"
    /\ CAlive
    /\ IF noChanges(diff)
       THEN /\ cWarned' = cWarned + 1
            /\ cCmdResult' = <<"nil">>
            /\ UNCHANGED <<genCalls, commits, cPrinted>>
       ELSE \E clientErr \in {"nil", "failed to create AI client"} :
            IF clientErr # "nil"
            THEN /\ cCmdResult' = <<clientErr>>
                 /\ UNCHANGED <<genCalls, commits, cPrinted, cWarned>>
            ELSE \E resp \in CommitResponses :
                 LET g == GenerateCommitMessage(resp)
                 IN /\ genCalls' = genCalls + 1
                    /\ IF g.err # "nil"
                       THEN /\ cCmdResult' = <<"failed to generate commit message">>
                            /\ UNCHANGED <<commits, cPrinted>>
                       ELSE /\ commits' = Append(commits, g.message)
                            /\ \E gitErr \in {"nil", "exit status 1"} :
                                 IF gitErr # "nil"
                                 THEN /\ cCmdResult' = <<"failed to commit changes">>
                                      /\ cPrinted' = Append(cPrinted, g.message)
                                 ELSE /\ cCmdResult' = <<"nil">>
                                      /\ cPrinted' = cPrinted \o <<g.message, <<"Successfully committed changes!">> >>
                    /\ UNCHANGED cWarned
    /\ UNCHANGED <<modelVars, cProgram, inFlight, pendingMsg, cRunResult, diffSummary>>
    /\ OtherFrame

\* runMessage, from its first line to its return
RunMessage ==
    /\ invoked = "message"
    /\ CAlive
    /\ IF noChanges(diff)
       THEN /\ cWarned' = cWarned + 1
            /\ cCmdResult' = <<"no staged changes">>
            /\ UNCHANGED <<genCalls, cPrinted>>
       ELSE \E clientErr \in {"nil", "failed to create AI client"} :
            IF clientErr # "nil"
            THEN /\ cCmdResult' = <<clientErr>>
                 /\ UNCHANGED <<genCalls, cPrinted, cWarned>>
            ELSE \E resp \in CommitResponses :
                 LET g == GenerateCommitMessage(resp)
                 IN /\ genCalls' = genCalls + 1
                    /\ IF g.err # "nil"
                       THEN /\ cCmdResult' = <<"failed to generate commit message">>
                            /\ UNCHANGED cPrinted
                       ELSE /\ cPrinted' = Append(cPrinted, g.message)
                            /\ cCmdResult' = <<"nil">>
                    /\ UNCHANGED cWarned
    /\ UNCHANGED <<modelVars, cProgram, inFlight, pendingMsg, commits, cRunResult, diffSummary>>
    /\ OtherFrame

\* the tea.Cmd of generateCommitMessage
ExecGenerateCommitMessage ==
    /\ CAlive /\ inFlight = "generate"
    /\ \E resp \in CommitResponses :
         LET g == GenerateCommitMessage(resp)
         IN pendingMsg' = <<[type |-> "msgCommitGenerated",
                             message |-> TrimSpace(g.message), err |-> g.err]>>
    /\ genCalls' = genCalls + 1
    /\ inFlight' = "none"
    /\ UNCHANGED <<modelVars, cProgram, commits, cRunResult, cWarned, cCmdResult, cPrinted>>
    /\ UNCHANGED <<diffVars, ctxVars, reviewVars, fileVars, invoked>>

\* the tea.Cmd of commitChanges
ExecCommitChanges ==
    /\ CAlive /\ inFlight = "commit"
    /\ commits' = Append(commits, commitMessage)
    /\ \E gitErr \in {"nil", "exit status 1"} :
         pendingMsg' = <<[type |-> "msgCommitDone", message |-> <<>>, err |-> gitErr]>>
    /\ inFlight' = "none"
    /\ UNCHANGED <<modelVars, cProgram, genCalls, cRunResult, cWarned, cCmdResult, cPrinted>>
    /\ UNCHANGED <<diffVars, ctxVars, reviewVars, fileVars, invoked>>

CommitFrame ==
    /\ UNCHANGED <<genCalls, commits, cRunResult, cWarned, cCmdResult, cPrinted>>
    /\ UNCHANGED <<diffVars, ctxVars, reviewVars, fileVars, invoked>>

\* model.Update(msgCommitGenerated)
UpdateCommitGenerated ==
    /\ cProgram = "running"
    /\ pendingMsg # NoMsg /\ pendingMsg[1].type = "msgCommitGenerated"
    /\ IF pendingMsg[1].err # "nil"
       THEN /\ mErr' = pendingMsg[1].err
            /\ mState' = "stateError"
            /\ UNCHANGED commitMessage
       ELSE /\ commitMessage' = pendingMsg[1].message
            /\ mState' = "stateConfirm"
            /\ UNCHANGED mErr
    /\ pendingMsg' = NoMsg
    /\ UNCHANGED <<originalMessage, textInput, cProgram, inFlight>>
    /\ CommitFrame

\* model.Update(msgCommitDone)
UpdateCommitDone ==
    /\ cProgram = "running"
    /\ pendingMsg # NoMsg /\ pendingMsg[1].type = "msgCommitDone"
    /\ IF pendingMsg[1].err # "nil"
       THEN /\ mErr' = pendingMsg[1].err
            /\ mState' = "stateError"
       ELSE /\ mState' = "stateSuccess"
            /\ UNCHANGED mErr
    /\ pendingMsg' = NoMsg
    /\ cProgram' = "quit"
    /\ UNCHANGED <<commitMessage, originalMessage, textInput, inFlight>>
    /\ CommitFrame

\* model.Update(tea.KeyMsg), stateLoading: "q", "ctrl+c"
KeyLoadingQuit ==
    /\ cProgram = "running" /\ mState = "stateLoading"
    /\ cProgram' = "quit"
    /\ UNCHANGED <<modelVars, inFlight, pendingMsg>>
    /\ CommitFrame

\* a variant that accepts "y" in the committing state as well
KeyConfirmYesWhileCommitting ==
    /\ cProgram = "running" /\ mState \in {"stateConfirm", "stateCommitting"}
    /\ mState' = "stateCommitting"
    /\ inFlight' = "commit"
    /\ UNCHANGED <<commitMessage, originalMessage, mErr, textInput, cProgram, pendingMsg>>
    /\ CommitFrame

\* stateConfirm: "y", "Y"
KeyConfirmYes ==
    /\ cProgram = "running" /\ mState = "stateConfirm"
    /\ mState' = "stateCommitting"
    /\ inFlight' = "commit"
    /\ UNCHANGED <<commitMessage, originalMessage, mErr, textInput, cProgram, pendingMsg>>
    /\ CommitFrame

\* textinput.SetValue: the value is cut at the input's limit
SetValue(v) == SubSeq(v, 1, IF Len(v) < MaxInput THEN Len(v) ELSE MaxInput)

\* stateConfirm: "e", "E"
KeyConfirmEdit ==
    /\ cProgram = "running" /\ mState = "stateConfirm"
    /\ originalMessage' = commitMessage
    /\ textInput' = SetValue(commitMessage)
    /\ mState' = "stateEditing"
    /\ UNCHANGED <<commitMessage, mErr, cProgram, inFlight, pendingMsg>>
    /\ CommitFrame

\* stateConfirm: "n", "N", "q", "ctrl+c"
KeyConfirmNo ==
    /\ cProgram = "running" /\ mState = "stateConfirm"
    /\ cProgram' = "quit"
    /\ UNCHANGED <<modelVars, inFlight, pendingMsg>>
    /\ CommitFrame

\* stateEditing: "enter"
KeyEditingEnter ==
    /\ cProgram = "running" /\ mState = "stateEditing"
    /\ commitMessage' = IF TrimSpace(textInput) = <<>> THEN originalMessage
                        ELSE TrimSpace(textInput)
    /\ mState' = "stateConfirm"
    /\ UNCHANGED <<originalMessage, mErr, textInput, cProgram, inFlight, pendingMsg>>
    /\ CommitFrame

\* "esc" taken as a second "enter": the typed text is kept instead of dropped
KeyEditingEscKeepingInput ==
    /\ cProgram = "running" /\ mState = "stateEditing"
    /\ commitMessage' = IF TrimSpace(textInput) = <<>> THEN originalMessage
                        ELSE TrimSpace(textInput)
    /\ mState' = "stateConfirm"
    /\ UNCHANGED <<originalMessage, mErr, textInput, cProgram, inFlight, pendingMsg>>
    /\ CommitFrame

\* stateEditing: "esc"
KeyEditingEsc ==
    /\ cProgram = "running" /\ mState = "stateEditing"
    /\ commitMessage' = originalMessage
    /\ mState' = "stateConfirm"
    /\ UNCHANGED <<originalMessage, mErr, textInput, cProgram, inFlight, pendingMsg>>
    /\ CommitFrame

\* stateEditing, any other key: m.textInput.Update(msg), a typed character or
\* a backspace
KeyEditingType ==
    /\ cProgram = "running" /\ mState = "stateEditing"
    /\ \/ \E c \in TypedAtoms :
            /\ Len(textInput) < MaxInput
            /\ textInput' = Append(textInput, c)
       \/ /\ textInput # <<>>
          /\ textInput' = SubSeq(textInput, 1, Len(textInput) - 1)
    /\ UNCHANGED <<mState, commitMessage, originalMessage, mErr, cProgram, inFlight, pendingMsg>>
    /\ CommitFrame

\* stateSuccess, stateError: any key
KeyFinishedQuit ==
    /\ cProgram = "running" /\ mState \in {"stateSuccess", "stateError"}
    /\ cProgram' = "quit"
    /\ UNCHANGED <<modelVars, inFlight, pendingMsg>>
    /\ CommitFrame

\* model.Run after p.Run() returned progErr: the success message, `return err`
CommitRunReturns ==
    /\ cProgram = "quit"
    /\ \E progErr \in {"nil", "program error"} : cRunResult' = <<progErr>>
    /\ cProgram' = "returned"
    /\ cPrinted' = IF mState = "stateSuccess"
                   THEN cPrinted \o <<<<"Commit successful">>, commitMessage>>
                   ELSE cPrinted
    /\ UNCHANGED <<modelVars, inFlight, pendingMsg, genCalls, commits, cWarned, cCmdResult>>
    /\ UNCHANGED <<diffVars, ctxVars, reviewVars, fileVars, invoked>>

\* runCommit after tui.Run() returned
RunCommitEnd ==
    /\ CAlive /\ cProgram = "returned"
    /\ cCmdResult' = <<IF cRunResult[1] # "nil" THEN "TUI error" ELSE "nil">>
    /\ UNCHANGED <<modelVars, cProgram, inFlight, pendingMsg, genCalls, commits,
                   cRunResult, cWarned, cPrinted>>
    /\ UNCHANGED <<diffVars, ctxVars, reviewVars, fileVars, invoked>>

CommitInit ==
    /\ diff \in CommitDiffs
    /\ files = <<>>
    /\ diffSummary = <<>>
    /\ parsed = {}
    /\ CtxIdle
    /\ ReviewIdle
    /\ FileIdle
    /\ CommitIdle
    /\ invoked \in CommitInvocations

CommitNext ==
    \/ RunCommitStart
    \/ RunCommitDryRun
    \/ RunCommitYes
    \/ RunMessage
    \/ ExecGenerateCommitMessage
    \/ ExecCommitChanges
    \/ UpdateCommitGenerated
    \/ UpdateCommitDone
    \/ KeyLoadingQuit
    \/ KeyConfirmYes
    \/ KeyConfirmEdit
    \/ KeyConfirmNo
    \/ KeyEditingEnter
    \/ KeyEditingEsc
    \/ KeyEditingType
    \/ KeyFinishedQuit
    \/ CommitRunReturns
    \/ RunCommitEnd

SpecCommit == CommitInit /\ [][CommitNext]_vars

(***************************************************************************)
(* C10  Interactive commit: when the generation of the commit message      *)
(* fails (msgCommitGenerated carries an error), model.Run returns a        *)
(* non-nil error and runCommit ends with an error (exit status 1).         *)
(***************************************************************************)
C10_GenerationFailureIsFatal ==
    (cProgram = "returned" /\ mErr # "nil" /\ commits = <<>>) =>
        /\ cRunResult[1] # "nil"
        /\ (cCmdResult # <<>> => ExitStatus(cCmdResult) = 1)

(***************************************************************************)
(* C11  Interactive commit: when the commit fails after approval           *)
(* (msgCommitDone carries an error), model.Run returns a non-nil error     *)
(* and the command ends with exit status 1.                                *)
(***************************************************************************)
C11_CommitFailureIsFatal ==
    (cProgram = "returned" /\ mErr # "nil" /\ commits # <<>>) =>
        /\ cRunResult[1] # "nil"
        /\ (cCmdResult # <<>> => ExitStatus(cCmdResult) = 1)

(***************************************************************************)
(* Every command: review, commit (TUI, --dry-run, --yes) and message       *)
(***************************************************************************)
CliInit == ReviewInit \/ CommitInit

CliNext == ReviewNext \/ CommitNext

SpecCli == CliInit /\ [][CliNext]_vars

\* the command has returned
CommandEnded == cmdResult # <<>> \/ cCmdResult # <<>>

CommandResult == IF cmdResult # <<>> THEN cmdResult ELSE cCmdResult

(***************************************************************************)
(* C12  Empty diff: the review command and every commit command (TUI,      *)
(* --dry-run, --yes) print one warning, send no request to the AI          *)
(* collaborator and make no commit.                                        *)
(***************************************************************************)
C12_EmptyDiffNoAICall ==
    diff = <<>> =>
        /\ aiCalls = 0 /\ genCalls = 0
        /\ rpc = "idle" /\ inFlight = "none"
        /\ program = "none" /\ cProgram = "none"
        /\ commits = <<>>
        /\ CommandEnded => warned + cWarned = 1

\* commit --yes ended on an empty diff
C12_Witness ==
    /\ diff = <<>>
    /\ invoked = "commit --yes"
    /\ cCmdResult # <<>>
    /\ cWarned = 1

(***************************************************************************)
(* C13  Empty diff: review, commit, commit --dry-run and message all end   *)
(* with a nil result, exit status 0.                                       *)
(***************************************************************************)
C13_EmptyDiffExitsZero ==
    (diff = <<>> /\ CommandEnded) =>
        /\ CommandResult = <<"nil">>
        /\ ExitStatus(CommandResult) = 0

(***************************************************************************)
(* The requests ReviewCodeStructured has sent                              *)
(***************************************************************************)
FileRequests == SelectSeq(aiLog, LAMBDA e : e.to = "file")

SummaryRequests == SelectSeq(aiLog, LAMBDA e : e.to = "summary")

RECURSIVE CommentsOf(_)
\* the comments of the successful requests of a list, in order
CommentsOf(reqs) ==
    IF reqs = <<>> THEN <<>>
    ELSE (IF Head(reqs).ok THEN Head(reqs).comments ELSE <<>>) \o CommentsOf(Tail(reqs))

ReturnedComments ==
    CommentsOf([k \in 1..Len(Returned_FileReviews) |->
                  [ok |-> TRUE, comments |-> Returned_FileReviews[k].Comments]])

(***************************************************************************)
(* C14  ReviewCodeStructured: when the review holds at least one comment,  *)
(* exactly one summary request is sent; when generateReviewSummary fails   *)
(* on it, the summary is the fixed fallback text, and the review is still  *)
(* returned without error, with every successful file review in it.        *)
(***************************************************************************)
C14_SummaryFailureFallsBack ==
    (rpc = "returned" /\ ReturnedComments # <<>>) =>
        /\ Len(SummaryRequests) = 1
        /\ ~SummaryRequests[1].ok => review[1].review.Summary = FailedSummary
        /\ review[1].err = "nil"
        /\ ReviewedSegments = SucceededFrom(1)
        /\ ReturnedComments = CommentsOf(FileRequests)

\* the summary request failed after two files were reviewed, one with comments
C14_Witness ==
    /\ rpc = "returned"
    /\ Len(Returned_FileReviews) = 2
    /\ ReturnedComments # <<>>
    /\ Len(SummaryRequests) = 1
    /\ ~SummaryRequests[1].ok

(***************************************************************************)
(* C15  ReviewCodeStructured sends exactly one request per file segment,   *)
(* in order, none skipped and none repeated after a failure: N segments    *)
(* give N per-file requests plus at most one summary request.              *)
(***************************************************************************)
C15_OneRequestPerFile ==
    /\ \A k \in 1..Len(FileRequests) : FileRequests[k].idx = k
    /\ Len(FileRequests) = Len(settled)
    /\ aiCalls = Len(aiLog)
    /\ rpc = "returned" =>
          /\ Len(FileRequests) = Len(files)
          /\ Len(SummaryRequests) <= 1
          /\ aiCalls \in {Len(files), Len(files) + 1}

\* three files, the first request failed and was not repeated
C15_Witness ==
    /\ rpc = "returned"
    /\ Len(files) = 3
    /\ settled = <<FALSE, TRUE, TRUE>>
    /\ aiCalls = 4

(***************************************************************************)
(* C16  The summary request and the StructuredReview come only after every *)
(* file's review has settled: the summary request sees the comments of all *)
(* successful file reviews, never a part of them.                          *)
(***************************************************************************)
C16_SummaryAfterAllSettled ==
    /\ \A k \in 1..Len(aiLog) :
          aiLog[k].to = "summary" =>
              /\ k = Len(aiLog)
              /\ aiLog[k].idx = Len(files)
              /\ Len(settled) = Len(files)
              /\ aiLog[k].comments = CommentsOf(FileRequests)
    /\ review # <<>> =>
          /\ Len(settled) = Len(files)
          /\ Len(FileRequests) = Len(files)

\* the summary request followed three settled files, one of them failed
C16_Witness ==
    /\ Len(SummaryRequests) = 1
    /\ Len(files) = 3
    /\ \E k \in 1..3 : ~settled[k]
    /\ review # <<>>

(***************************************************************************)
(* C17  Cancellation: q or ctrl+c in the loading state of the commit TUI   *)
(* or the review TUI quits without waiting for the AI call; after it no    *)
(* commit is made and no review is printed, whatever the call returns.     *)
(***************************************************************************)
\* the TUI left its loading state only by the quit key
CommitQuitWhileLoading == cProgram \in {"quit", "returned"} /\ mState = "stateLoading"

ReviewQuitWhileLoading == program \in {"quit", "returned"} /\ rmState = "reviewStateLoading"

C17_QuitWhileLoading ==
    /\ CommitQuitWhileLoading =>
          /\ commits = <<>>
          /\ inFlight # "commit"
          /\ cPrinted = <<>>
          /\ commitMessage = <<>>
    /\ ReviewQuitWhileLoading =>
          /\ printed = 0
          /\ rmReview = <<>>
          /\ runResult # <<>> => runResult[1].text = ""

\* the review command ended after a quit in the loading state, and the
\* abandoned ReviewCodeStructured has returned its review since
C17_Witness ==
    /\ ReviewQuitWhileLoading
    /\ cmdResult # <<>>
    /\ rpc = "returned"
    /\ printed = 0

(***************************************************************************)
(* C18  Commit TUI: git commit is invoked only after y in the confirm      *)
(* state, at most once per run; n or q in the confirm state quits without  *)
(* a commit; once committing has started no key starts a second commit.    *)
(***************************************************************************)
CommitOnlyOnce ==
    invoked = "commit" =>
        /\ Len(commits) <= 1
        /\ inFlight = "commit" => (mState = "stateCommitting" /\ commits = <<>>)
        /\ commits # <<>> =>
              /\ mState \in {"stateCommitting", "stateSuccess", "stateError"}
              /\ commits[1] = commitMessage
        /\ mState \in {"stateLoading", "stateConfirm", "stateEditing"} =>
              (commits = <<>> /\ inFlight # "commit")

\* the commit is started by a step taken in the confirm state, before any commit
CommitStartsFromConfirm ==
    (invoked = "commit" /\ inFlight # "commit" /\ inFlight' = "commit") =>
        /\ mState = "stateConfirm" /\ mState' = "stateCommitting"
        /\ cProgram = "running"
        /\ commits = <<>>

C18_CommitOnlyAfterApproval == []CommitOnlyOnce /\ [][CommitStartsFromConfirm]_vars

\* the user approved, the commit was made once and the command ended
C18_Witness ==
    /\ invoked = "commit"
    /\ mState = "stateSuccess"
    /\ cCmdResult # <<>>
    /\ commits = <<commitMessage>>

(***************************************************************************)
(* GenerateCommitMessage on every shape of response                        *)
(***************************************************************************)
PartTexts == {<<>>, <<"feat">>, <<SP, "fix", NL>>}

RawResponses ==
    [err : BOOLEAN,
     Candidates : SeqsUpTo({[Parts |-> ps] : ps \in SeqsUpTo(PartTexts, MaxParts)},
                           MaxCandidates)]

\* a variant that reads the last part of the last candidate
lastPart(raw) ==
    IF raw.err THEN [kind |-> "error"]
    ELSE IF Len(raw.Candidates) = 0 THEN [kind |-> "noCandidates"]
    ELSE LET parts == raw.Candidates[Len(raw.Candidates)].Parts
         IN IF Len(parts) = 0 THEN [kind |-> "noParts"]
            ELSE IF parts[Len(parts)] = <<>> THEN [kind |-> "emptyText"]
            ELSE TextResponse(parts[Len(parts)])

\* the checks on err, resp.Candidates, resp.Candidates[0].Content.Parts and
\* part.Text that follow Models.GenerateContent
firstPart(raw) ==
    IF raw.err THEN [kind |-> "error"]
    ELSE IF Len(raw.Candidates) = 0 THEN [kind |-> "noCandidates"]
    ELSE LET parts == raw.Candidates[1].Parts
         IN IF Len(parts) = 0 THEN [kind |-> "noParts"]
            ELSE IF parts[1] = <<>> THEN [kind |-> "emptyText"]
            ELSE TextResponse(parts[1])

GenInit ==
    /\ genRaw \in RawResponses
    /\ genRequests = 0
    /\ genResult = <<>>
    /\ sfResp = [kind |-> "error"]
    /\ sfResult = <<>>
    /\ StreamIdle
    /\ SideIdle
    /\ DiffIdle
    /\ CtxIdle
    /\ ReviewIdle
    /\ CommitIdle
    /\ invoked = "none"

\* v.GenerateCommitMessage(ctx, diff)
CallGenerateCommitMessage ==
    /\ genResult = <<>>
    /\ genRequests' = genRequests + 1
    /\ genResult' = <<GenerateCommitMessage(firstPart(genRaw))>>
    /\ UNCHANGED <<genRaw, sfResp, sfResult, streamVars, sideVars, diffVars, ctxVars, reviewVars, commitVars>>

GenNext == CallGenerateCommitMessage

SpecGen == GenInit /\ [][GenNext]_vars

\* the call failed, or the response has no candidate, no part or an empty text
UnusableResponse(raw) ==
    \/ raw.err
    \/ raw.Candidates = <<>>
    \/ raw.Candidates[1].Parts = <<>>
    \/ raw.Candidates[1].Parts[1] = <<>>

(***************************************************************************)
(* C19  GenerateCommitMessage sends exactly one request and returns an     *)
(* error (and no text) when the call fails or the response has no          *)
(* candidate, no part or an empty text; otherwise it returns the text of   *)
(* the first part of the first candidate, unchanged.                       *)
(***************************************************************************)
C19_OneCallOneErrorOrFirstPart ==
    /\ genRequests <= 1
    /\ genResult # <<>> =>
          /\ genRequests = 1
          /\ IF UnusableResponse(genRaw)
             THEN genResult[1].err # "nil" /\ genResult[1].message = <<>>
             ELSE /\ genResult[1].err = "nil"
                  /\ genResult[1].message = genRaw.Candidates[1].Parts[1]

\* two candidates with two parts each: the first part is returned, the later
\* ones, empty or not, are not looked at
C19_Witness ==
    /\ genResult # <<>>
    /\ ~genRaw.err
    /\ Len(genRaw.Candidates) = 2
    /\ genRaw.Candidates[1].Parts = <<<<SP, "fix", NL>>, <<>>>>
    /\ genResult[1].message = <<SP, "fix", NL>>

(***************************************************************************)
(* C20  On every path that commits (approval in the TUI, --yes) the        *)
(* message passed to git commit carries no leading or trailing             *)
(* whitespace: it is the trimmed AI text or the user's trimmed edit.       *)
(***************************************************************************)
C20_CommittedMessageIsTrimmed ==
    \A k \in 1..Len(commits) : commits[k] = TrimSpace(commits[k])

(***************************************************************************)
(* Legacy streaming review: generateReviewStreaming, waitForActivity and   *)
(* the reviewModel that consumes the chunks                                *)
(***************************************************************************)
ChunkTexts == {<<>>, <<"a">>, <<"b">>}

ChunkMsg(c) == [type |-> "msgReviewChunk", chunk |-> c, err |-> "nil"]

CompleteMsg(e) == [type |-> "msgReviewComplete", chunk |-> <<>>, err |-> e]

StreamFrame == UNCHANGED <<sfResp, sfResult, genVars, sideVars, diffVars, ctxVars, reviewVars, commitVars>>

StreamInit ==
    /\ toSend \in SeqsUpTo(ChunkTexts, MaxChunks)
    /\ aiErr \in BOOLEAN
    /\ pc = "none"
    /\ sub = <<>>
    /\ subClosed = FALSE
    /\ delivered = <<>>
    /\ waiting = 0
    /\ msgs = <<>>
    /\ sState = "reviewStateLoading"
    /\ sReview = <<>>
    /\ sErr = "nil"
    /\ sProgram = "none"
    /\ sRunResult = <<>>
    /\ sPrinted = <<>>
    /\ sfResp = [kind |-> "error"]
    /\ sfResult = <<>>
    /\ GenIdle
    /\ SideIdle
    /\ DiffIdle
    /\ CtxIdle
    /\ ReviewIdle
    /\ CommitIdle
    /\ invoked = "none"

\* the process is still there: Run has not returned
StreamAlive == sProgram # "returned"

\* reviewModel.Init in legacy mode: generateReviewStreaming starts the producer
\* goroutine, waitForActivity starts the first receive
StreamStart ==
    /\ sProgram = "none"
    /\ sProgram' = "running"
    /\ pc' = "streaming"
    /\ waiting' = waiting + 1
    /\ UNCHANGED <<toSend, aiErr, sub, subClosed, delivered>>
    /\ UNCHANGED <<msgs, sState, sReview, sErr, sRunResult, sPrinted>>
    /\ StreamFrame

\* the callback of ReviewCodeStreaming: `case m.sub <- msgReviewChunk{chunk: chunk}`;
\* ctx is context.Background(), whose Done channel never fires
ProducerSendChunk ==
    /\ StreamAlive /\ pc = "streaming"
    /\ toSend # <<>>
    /\ Len(sub) < SubCapacity
    /\ sub' = Append(sub, Head(toSend))
    /\ delivered' = Append(delivered, Head(toSend))
    /\ toSend' = Tail(toSend)
    /\ UNCHANGED <<aiErr, pc, subClosed, consumerVars>>
    /\ StreamFrame

\* ReviewCodeStreaming returns: `if err != nil`
ProducerCallReturns ==
    /\ StreamAlive /\ pc = "streaming"
    /\ toSend = <<>>
    /\ pc' = IF aiErr THEN "sendErr" ELSE "closing"
    /\ UNCHANGED <<toSend, aiErr, sub, subClosed, delivered, consumerVars>>
    /\ StreamFrame

\* `m.sub <- msgReviewChunk{}`
ProducerSendErr ==
    /\ StreamAlive /\ pc = "sendErr"
    /\ Len(sub) < SubCapacity
    /\ sub' = Append(sub, <<>>)
    /\ delivered' = Append(delivered, <<>>)
    /\ pc' = "closing"
    /\ UNCHANGED <<toSend, aiErr, subClosed, consumerVars>>
    /\ StreamFrame

\* `defer close(m.sub)`
ProducerClose ==
    /\ StreamAlive /\ pc = "closing"
    /\ subClosed' = TRUE
    /\ pc' = "done"
    /\ UNCHANGED <<toSend, aiErr, sub, delivered, consumerVars>>
    /\ StreamFrame

\* a waitForActivity command: `chunk, ok := <-sub`
WaitForActivity ==
    /\ StreamAlive /\ waiting > 0
    /\ \/ /\ sub # <<>>
          /\ msgs' = Append(msgs, ChunkMsg(Head(sub)))
          /\ sub' = Tail(sub)
       \/ /\ sub = <<>> /\ subClosed
          /\ msgs' = Append(msgs, CompleteMsg("nil"))
          /\ UNCHANGED sub
    /\ waiting' = waiting - 1
    /\ UNCHANGED <<toSend, aiErr, pc, subClosed, delivered>>
    /\ UNCHANGED <<sState, sReview, sErr, sProgram, sRunResult, sPrinted>>
    /\ StreamFrame

\* a variant that puts the new chunk in front of the text
accumulatePrepending(text, chunk) == chunk \o text

\* `m.review += msg.chunk`
accumulate(text, chunk) == text \o chunk

\* reviewModel.Update(msgReviewChunk)
UpdateReviewChunk ==
    /\ sProgram = "running"
    /\ msgs # <<>> /\ Head(msgs).type = "msgReviewChunk"
    /\ sState' = IF sState = "reviewStateLoading" THEN "reviewStateStreaming" ELSE sState
    /\ sReview' = accumulate(sReview, Head(msgs).chunk)
    /\ waiting' = waiting + 1
    /\ msgs' = Tail(msgs)
    /\ UNCHANGED <<producerVars, sErr, sProgram, sRunResult, sPrinted>>
    /\ StreamFrame

\* reviewModel.Update(msgReviewComplete)
UpdateReviewComplete ==
    /\ sProgram = "running"
    /\ msgs # <<>> /\ Head(msgs).type = "msgReviewComplete"
    /\ IF Head(msgs).err # "nil"
       THEN /\ sErr' = Head(msgs).err
            /\ sState' = "reviewStateError"
       ELSE /\ sState' = "reviewStateDisplay"
            /\ UNCHANGED sErr
    /\ msgs' = Tail(msgs)
    /\ sProgram' = "quit"
    /\ UNCHANGED <<producerVars, waiting, sReview, sRunResult, sPrinted>>
    /\ StreamFrame

\* reviewModel.Update(tea.KeyMsg), loading or streaming: "q", "ctrl+c"
UpdateStreamKeyQuit ==
    /\ sProgram = "running"
    /\ sState \in {"reviewStateLoading", "reviewStateStreaming"}
    /\ sProgram' = "quit"
    /\ UNCHANGED <<producerVars, waiting, msgs, sState, sReview, sErr, sRunResult, sPrinted>>
    /\ StreamFrame

\* reviewModel.Run in legacy mode after p.Run() returned progErr
StreamRunReturns ==
    /\ sProgram = "quit"
    /\ \E progErr \in {"nil", "program error"} :
         IF sErr # "nil"
         THEN /\ sRunResult' = <<[text |-> <<>>, err |-> sErr]>>
              /\ UNCHANGED sPrinted
         ELSE /\ sRunResult' = <<[text |-> sReview, err |-> progErr]>>
              /\ sPrinted' = IF sReview # <<>> THEN Append(sPrinted, sReview) ELSE sPrinted
    /\ sProgram' = "returned"
    /\ UNCHANGED <<producerVars, waiting, msgs, sState, sReview, sErr>>
    /\ StreamFrame

StreamNext ==
    \/ StreamStart
    \/ ProducerSendChunk
    \/ ProducerCallReturns
    \/ ProducerSendErr
    \/ ProducerClose
    \/ WaitForActivity
    \/ UpdateReviewChunk
    \/ UpdateReviewComplete
    \/ UpdateStreamKeyQuit
    \/ StreamRunReturns

SpecStream == StreamInit /\ [][StreamNext]_vars

\* the user did not quit: the consumer left the loading and streaming states
ConsumerFinished == sState \in {"reviewStateDisplay", "reviewStateError"}

(***************************************************************************)
(* C21  Legacy streaming review: when the streaming AI call returns an     *)
(* error, the consumer ends in the error state and reviewModel.Run returns *)
(* that error; it does not complete as a successful review.                *)
(***************************************************************************)
C21_StreamErrorReachesRun ==
    (aiErr /\ ConsumerFinished) =>
        /\ sState = "reviewStateError"
        /\ sErr # "nil"
        /\ sRunResult # <<>> => sRunResult[1].err = sErr

(***************************************************************************)
(* Language resolution: config.Load and the --language flag                *)
(***************************************************************************)
\* Values a language setting can take; "" is a key that is absent or empty.
Languages == {"", "japanese", "spanish"}

\* The language fields of FileConfig.
FileConfigs ==
    [Language : Languages, Commit : [Language : Languages], Review : [Language : Languages]]

\* fileConfig = &FileConfig{} : what Load uses when the file cannot be read.
EmptyFileConfig ==
    [Language |-> "", Commit |-> [Language |-> ""], Review |-> [Language |-> ""]]

\* Load with the command-specific settings left out of the resolution.
LoadIgnoringCommandSettings(loaded) ==
    LET fc == IF loaded = <<>> THEN EmptyFileConfig ELSE loaded[1]
        defaultLanguage == IF fc.Language = "" THEN "english" ELSE fc.Language
    IN  [CommitLanguage |-> defaultLanguage, ReviewLanguage |-> defaultLanguage]

\* config.Load, the language fields of its result.
Load(loaded) ==
    LET fc == IF loaded = <<>> THEN EmptyFileConfig ELSE loaded[1]
        defaultLanguage == IF fc.Language = "" THEN "english" ELSE fc.Language
        commitLanguage ==
            IF fc.Commit.Language = "" THEN defaultLanguage ELSE fc.Commit.Language
        reviewLanguage ==
            IF fc.Review.Language = "" THEN defaultLanguage ELSE fc.Review.Language
    IN  [CommitLanguage |-> commitLanguage, ReviewLanguage |-> reviewLanguage]

LangFrame ==
    UNCHANGED <<sfResp, sfResult, genVars, streamVars, relVars, labelVars, scrollVars,
                diffVars, ctxVars, reviewVars, commitVars>>

LangInit ==
    /\ lCmd \in {"commit", "review"}
    /\ lFlag \in Languages
    /\ fileConfig \in {<<>>} \cup {<<fc>> : fc \in FileConfigs}
    /\ cfg = <<>>
    /\ lUsed = <<>>
    /\ RelIdle
    /\ LabelIdle
    /\ ScrollIdle
    /\ sfResp = [kind |-> "error"]
    /\ sfResult = <<>>
    /\ GenIdle
    /\ StreamIdle
    /\ DiffIdle
    /\ CtxIdle
    /\ ReviewIdle
    /\ CommitIdle
    /\ invoked = "none"

\* runCommit up to the AI call: config.Load, then the flag, then
\* GenerateCommitMessage(ctx, diff, cfg.CommitLanguage).
RunCommitLanguage ==
    /\ lCmd = "commit"
    /\ lUsed = <<>>
    /\ LET loaded == Load(fileConfig)
           final == IF lFlag # "" THEN [loaded EXCEPT !.CommitLanguage = lFlag]
                                 ELSE loaded
       IN  /\ cfg' = <<final>>
           /\ lUsed' = <<final.CommitLanguage>>
    /\ UNCHANGED <<lCmd, lFlag, fileConfig>>
    /\ LangFrame

\* The review command up to the AI call: config.Load, then the flag, then
\* ReviewCodeStructured(ctx, diff, cfg.ReviewLanguage).
RunReviewLanguage ==
    /\ lCmd = "review"
    /\ lUsed = <<>>
    /\ LET loaded == Load(fileConfig)
           final == IF lFlag # "" THEN [loaded EXCEPT !.ReviewLanguage = lFlag]
                                 ELSE loaded
       IN  /\ cfg' = <<final>>
           /\ lUsed' = <<final.ReviewLanguage>>
    /\ UNCHANGED <<lCmd, lFlag, fileConfig>>
    /\ LangFrame

LangNext == RunCommitLanguage \/ RunReviewLanguage

SpecLang == LangInit /\ [][LangNext]_vars

\* The settings that apply to the command, highest priority first; a setting
\* that is absent is the empty string.
SettingsByPriority ==
    LET fc == IF fileConfig = <<>> THEN EmptyFileConfig ELSE fileConfig[1]
    IN  <<lFlag,
          IF lCmd = "commit" THEN fc.Commit.Language ELSE fc.Review.Language,
          fc.Language,
          "english">>

ParseReturns == Alive /\ rpc = "start" /\ rpc' = "loop"

\* The tea.Cmd goroutine running ReviewCodeStructured keeps being scheduled
\* and every AI request is answered; the tea.Program hands the message of a
\* finished command to Update; Run and runReview go on once p.Run returned.
\* No key press is ever required to happen.
SpecReviewFair ==
    /\ ReviewInit
    /\ [][ReviewNext]_vars
    /\ WF_rpc(ParseReturns)
    /\ WF_vars(RvReviewFile \/ RvSummary)
    /\ WF_vars(UpdateReviewGenerated)
    /\ WF_vars(ReviewRunReturns)
    /\ WF_vars(RunReviewEnd)

\* the message of ReviewCodeStructured reached Update
ResultHandled == rmState # "reviewStateLoading"

\* C23: the review TUI needs no key press: once it runs it always eventually
\* quits and Run returns; nothing is printed while the TUI is up; and when Run
\* has returned after the result was handled, the review has been printed
\* exactly once if the result carried no error and not at all if it did.
C23_QuitsUnaidedPrintsOnce ==
    /\ (program = "running") ~> (program = "returned")
    /\ [](program \in {"running", "quit"} => printed = 0)
    /\ []((program = "returned" /\ ResultHandled) =>
            printed = IF review[1].err = "nil" THEN 1 ELSE 0)

\* Run returned after a result without error and printed the review once.
C23_Witness ==
    /\ program = "returned"
    /\ rmState = "reviewStateDisplay"
    /\ review # <<>> /\ review[1].err = "nil"
    /\ printed = 1

(***************************************************************************)
(* The diff sections printed with a file's review (internal/ui/tui.go)     *)
(***************************************************************************)
\* An element of a result is the line, [style, text], together with at, the
\* index of the input line it stands for (at is not program state).

\* a variant of the hunk-header branch without its `continue`: the header goes
\* on into the hunk logic as if it were a body line
hunkHeaderBranchFallingThrough(commentLines, st, line, i) ==
    LET cur == hunkStartCounter(line, st.currentLineNum) + 1
        withHeader == Append(st.result, [text |-> line, at |-> i])
    IN [result |-> IF \E c \in commentLines : abs(cur - c) <= contextWindow
                   THEN Append(withHeader, [text |-> line, at |-> i])
                   ELSE withHeader,
        currentLineNum |-> cur,
        inHunk |-> TRUE]

\* extractCommentRelevantLines, the branch "Hunk header - parse line numbers"
hunkHeaderBranch(commentLines, st, line, i) ==
    [result |-> Append(st.result, [text |-> line, at |-> i]),
     currentLineNum |-> hunkStartCounter(line, st.currentLineNum),
     inHunk |-> TRUE]

\* One iteration of the loop of extractCommentRelevantLines.
extractCommentRelevantStep(lines, commentLines, st, i) ==
    LET line == lines[i]
    IN IF IsHeaderLine(line)
       THEN [st EXCEPT !.result = Append(@, [text |-> line, at |-> i])]
       ELSE IF IsHunkHeader(line) THEN hunkHeaderBranch(commentLines, st, line, i)
       ELSE IF st.inHunk THEN
           LET cur == IF ~HasPrefix(line, <<"-">>) THEN st.currentLineNum + 1
                      ELSE st.currentLineNum
               isRelevant == \E c \in commentLines : abs(cur - c) <= contextWindow
           IN [result |-> IF isRelevant
                          THEN Append(st.result, [text |-> line, at |-> i])
                          ELSE st.result,
               currentLineNum |-> cur,
               inHunk |-> ~EndOfHunk(lines, i)]
       ELSE st

RECURSIVE extractCommentRelevantLoop(_, _, _, _)
extractCommentRelevantLoop(lines, commentLines, st, i) ==
    IF i > Len(lines) THEN st
    ELSE extractCommentRelevantLoop(lines, commentLines,
             extractCommentRelevantStep(lines, commentLines, st, i), i + 1)

extractCommentRelevantLines(lines, commentLines) ==
    extractCommentRelevantLoop(lines, commentLines,
        [result |-> <<>>, currentLineNum |-> 0, inHunk |-> FALSE], 1).result

IsChange(line) == HasPrefix(line, <<"+">>) \/ HasPrefix(line, <<"-">>)

min(x, y) == IF x < y THEN x ELSE y

max(x, y) == IF x > y THEN x ELSE y

\* filterHunkLines: the header, the changed lines and one line around each
filterHunkLines(hunkLines) ==
    IF Len(hunkLines) = 0 THEN hunkLines
    ELSE LET changedIndices == {i \in 2..Len(hunkLines) : IsChange(hunkLines[i].text)}
             included == UNION {max(2, c - 1)..min(Len(hunkLines), c + 1) :
                                  c \in changedIndices}
         IN <<hunkLines[1]>> \o SelectSeq(SubSeq(hunkLines, 2, Len(hunkLines)),
                                         LAMBDA e : \E k \in included : hunkLines[k] = e)

\* One iteration of the loop of extractRelevantDiffLines.
extractRelevantDiffStep(lines, st, i) ==
    LET line == lines[i]
        elem == [text |-> line, at |-> i]
    IN IF IsHeaderLine(line) THEN [st EXCEPT !.result = Append(@, elem)]
       ELSE IF IsHunkHeader(line) THEN
           [result |-> IF st.inHunk /\ st.hasChanges THEN st.result \o st.currentHunk
                       ELSE st.result,
            currentHunk |-> <<elem>>,
            inHunk |-> TRUE,
            hasChanges |-> FALSE]
       ELSE IF st.inHunk THEN
           LET hunk == Append(st.currentHunk, elem)
               changes == st.hasChanges \/ IsChange(line)
           IN IF EndOfHunk(lines, i)
              THEN [result |-> IF changes THEN st.result \o filterHunkLines(hunk)
                               ELSE st.result,
                    currentHunk |-> hunk,
                    inHunk |-> FALSE,
                    hasChanges |-> FALSE]
              ELSE [st EXCEPT !.currentHunk = hunk, !.hasChanges = changes]
       ELSE st

RECURSIVE extractRelevantDiffLoop(_, _, _)
extractRelevantDiffLoop(lines, st, i) ==
    IF i > Len(lines) THEN st
    ELSE extractRelevantDiffLoop(lines, extractRelevantDiffStep(lines, st, i), i + 1)

extractRelevantDiffLines(lines) ==
    extractRelevantDiffLoop(lines,
        [result |-> <<>>, currentHunk |-> <<>>, inHunk |-> FALSE, hasChanges |-> FALSE],
        1).result

\* the style getRelevantDiffSections renders a relevant line with
SectionStyleOf(line) ==
    IF HasPrefix(line, <<"+">>) /\ ~HasPrefix(line, <<"+", "+", "+">>) THEN "added"
    ELSE IF HasPrefix(line, <<"-">>) /\ ~HasPrefix(line, <<"-", "-", "-">>) THEN "deleted"
    ELSE IF HasPrefix(line, <<"@@">>) THEN "title"
    ELSE IF HasPrefix(line, DiffGit) \/ HasPrefix(line, <<"index">>) THEN "diff"
    ELSE "plain"

\* getRelevantDiffSections; comments is the list of the comments' LineNo.
\* mode tells which of the two extractions produced the lines.
getRelevantDiffSections(lines, comments) ==
    LET commentLines == {comments[k] : k \in {j \in 1..Len(comments) : comments[j] > 0}}
        hasLineNumbers == commentLines # {}
    IN IF ~hasLineNumbers
       THEN [mode |-> "changes",
             lines |-> [k \in 1..Len(extractRelevantDiffLines(lines)) |->
                          [style |-> "none",
                           text |-> extractRelevantDiffLines(lines)[k].text,
                           at |-> extractRelevantDiffLines(lines)[k].at]]]
       ELSE LET relevantLines == extractCommentRelevantLines(lines, commentLines)
            IN [mode |-> "comments",
                lines |-> [k \in 1..Len(relevantLines) |->
                             [style |-> SectionStyleOf(relevantLines[k].text),
                              text |-> relevantLines[k].text,
                              at |-> relevantLines[k].at]]]

\* One hunk: a header and up to n body lines.
RelHunks(n) == {<<h>> \o b : h \in HunkHeaders, b \in SeqsUpTo(BodyLines, n)}

\* One file's diff text: a hunk, then nothing or a second, short hunk.
RelInputs ==
    {h1 \o h2 : h1 \in RelHunks(MaxHunkBody),
                h2 \in {<<>>} \cup {<<h>> : h \in HunkHeaders}
                               \cup {<<h, b>> : h \in HunkHeaders, b \in BodyLines}}

\* The LineNo of the file's comments; 0 is a comment without a line, and the
\* sections are printed only for a file that has one.
RelCommentLists == {<<0>>, <<1, 0>>, <<1, 0, 2>>}

RelInit ==
    /\ relLines \in RelInputs
    /\ relComments \in RelCommentLists
    /\ relOut = <<>>
    /\ LangIdle
    /\ LabelIdle
    /\ ScrollIdle
    /\ sfResp = [kind |-> "error"]
    /\ sfResult = <<>>
    /\ GenIdle
    /\ StreamIdle
    /\ DiffIdle
    /\ CtxIdle
    /\ ReviewIdle
    /\ CommitIdle
    /\ invoked = "none"

\* printFileReview, "If there are comments without line numbers, show general
\* diff": diffLines := m.getRelevantDiffSections(DiffText, Comments)
CallGetRelevantDiffSections ==
    /\ relOut = <<>>
    /\ \E k \in 1..Len(relComments) : relComments[k] = 0
    /\ relLines # <<>>
    /\ relOut' = <<getRelevantDiffSections(relLines, relComments)>>
    /\ UNCHANGED <<relLines, relComments, langVars, labelVars, scrollVars>>
    /\ UNCHANGED <<sfResp, sfResult, genVars, streamVars>>
    /\ UNCHANGED <<diffVars, ctxVars, reviewVars, commitVars>>

RelNext == CallGetRelevantDiffSections

SpecRel == RelInit /\ [][RelNext]_vars

(***************************************************************************)
(* The line counter of the two extractors, observed line by line           *)
(***************************************************************************)
\* currentLineNum of extractCommentRelevantLines once line i has been read
CommentCounterAfter(lines, i) ==
    extractCommentRelevantLoop(SubSeq(lines, 1, i), {},
        [result |-> <<>>, currentLineNum |-> 0, inHunk |-> FALSE], 1).currentLineNum

\* currentLineNum of getCodeContextForLine once line i has been read
ContextCounterAfter(lines, i) ==
    getCodeContextLoop(SubSeq(lines, 1, i), 1,
        [result |-> <<>>, currentLineNum |-> 0, inHunk |-> FALSE], 1).currentLineNum

\* the context and added lines of the hunks whose header can be parsed
NumberedLines(lines) ==
    {i \in 1..Len(lines) : /\ IsBodyLine(lines, i)
                           /\ ~IsDeletion(lines[i])
                           /\ Parseable(lines[HeaderOf(lines, i)])}

\* C24: in both extractors the k-th context or added line of a hunk is
\* numbered newStart + k - 1, whatever the text of the lines: the counter
\* starts at the header's newStart and goes up by one for every body line
\* that is not a deletion.
C24_LineTracking ==
    relOut # <<>> =>
        \A i \in NumberedLines(relLines) :
            /\ CommentCounterAfter(relLines, i) = NewLineNo(relLines, i)
            /\ ContextCounterAfter(relLines, i) = NewLineNo(relLines, i)

\* the hunk headers whose new-file start cannot be parsed
UnparseableHeaders(lines) ==
    {j \in 1..Len(lines) : IsHunkHeader(lines[j]) /\ ~Parseable(lines[j])}

\* C25: after a hunk header whose new-file start cannot be parsed, be it the
\* first hunk or a later one, the counter of both extractors is such that the
\* first line of the hunk is numbered 1, whatever hunk came before.
C25_UnparseableStartsAtOne ==
    relOut # <<>> =>
        \A j \in UnparseableHeaders(relLines) :
            /\ CommentCounterAfter(relLines, j) = 0
            /\ ContextCounterAfter(relLines, j) = 0

\* C26: extractCommentRelevantLines returns a subsequence of its input: the
\* returned lines are input lines, each input line is returned at most once,
\* and they come in the order of the input.
C26_OrderPreservingSubsequence ==
    (relOut # <<>> /\ relOut[1].mode = "comments") =>
        LET out == relOut[1].lines
        IN /\ \A k \in 1..Len(out) :
                 out[k].at \in 1..Len(relLines) /\ out[k].text = relLines[out[k].at]
           /\ \A k \in 1..(Len(out) - 1) : out[k].at < out[k + 1].at

\* Two windows overlap on a body line, which is returned once, and a line of
\* the same hunk outside both windows is left out.
C26_Witness ==
    /\ relOut # <<>> /\ relOut[1].mode = "comments"
    /\ relComments = <<1, 0, 2>>
    /\ Len(relOut[1].lines) >= 4
    /\ Len(relOut[1].lines) < Len(relLines)

\* the hunk that body line i belongs to has a changed line
HunkHasChanges(lines, i) ==
    \E j \in 1..Len(lines) :
        IsBodyLine(lines, j) /\ HeaderOf(lines, j) = HeaderOf(lines, i) /\ IsChange(lines[j])

\* C27: without comment line numbers the changed-hunks extraction is used; it
\* returns, in the order of the input, every changed line of every hunk, and
\* of the unchanged body lines only those next to a changed line of the same
\* hunk; a hunk without changed lines contributes nothing, its header
\* included.
C27_ChangedHunksFallback ==
    (relOut # <<>> /\ \A k \in 1..Len(relComments) : relComments[k] <= 0) =>
        LET out == relOut[1].lines
        IN /\ relOut[1].mode = "changes"
           /\ \A k \in 1..(Len(out) - 1) : out[k].at < out[k + 1].at
           /\ \A i \in 1..Len(relLines) :
                 (IsBodyLine(relLines, i) /\ IsChange(relLines[i])) => i \in Returned(out)
           /\ \A i \in Returned(out) :
                 (IsBodyLine(relLines, i) /\ ~IsChange(relLines[i])) =>
                     \E j \in {i - 1, i + 1} :
                         /\ j \in 1..Len(relLines)
                         /\ IsBodyLine(relLines, j)
                         /\ HeaderOf(relLines, j) = HeaderOf(relLines, i)
                         /\ IsChange(relLines[j])
           /\ \A i \in Returned(out) :
                 /\ IsBodyLine(relLines, i) => HunkHasChanges(relLines, i)
                 /\ IsHunkHeader(relLines[i]) =>
                        \E j \in 1..Len(relLines) :
                            IsBodyLine(relLines, j) /\ HeaderOf(relLines, j) = i
                                /\ IsChange(relLines[j])

\* C28: extractCommentRelevantLines returns a hunk header only when it
\* returns a body line of that hunk, that is a line within the window of
\* some comment.
C28_HeaderOnlyWithRelevantLine ==
    (relOut # <<>> /\ relOut[1].mode = "comments") =>
        \A j \in Returned(relOut[1].lines) :
            IsHunkHeader(relLines[j]) =>
                \E i \in Returned(relOut[1].lines) :
                    IsBodyLine(relLines, i) /\ HeaderOf(relLines, i) = j

(***************************************************************************)
(* reviewSingleFile: the two parse attempts                                *)
(***************************************************************************)
\* the response text is a JSON document as it stands
IsJSON(t) == t.valid /\ t.fence = "none" /\ ~t.closed

\* the response text is a JSON document between "```json" and "```"
IsFencedJSON(t) == t.valid /\ t.fence = "json" /\ t.closed

\* C29: reviewSingleFile parses the response text as it stands; only when
\* that fails it parses once more, the text without its "```json" fence; a
\* JSON document, bare or in such a fence, yields the FileReview with its
\* comments; when both attempts fail the call returns an error and no
\* FileReview at all; there are never more than two attempts.
C29_DirectThenOneFallback ==
    (sfResult # <<>> /\ sfResp.kind = "text") =>
        LET t == sfResp.text
            r == sfResult[1]
        IN /\ r.parses = IF IsJSON(t) THEN 1 ELSE 2
           /\ (IsJSON(t) \/ IsFencedJSON(t)) =>
                   (r.ok /\ r.fr[1].Comments = t.comments)
           /\ r.ok => t.valid
           /\ ~r.ok => (r.fr = <<>> /\ r.err = "failed to parse JSON response")

\* A fenced document with comments went through both attempts.
C29_Witness ==
    /\ sfResult # <<>> /\ sfResp.kind = "text"
    /\ IsFencedJSON(sfResp.text)
    /\ sfResult[1].parses = 2
    /\ sfResult[1].ok
    /\ Len(sfResult[1].fr[1].Comments) >= 1

(***************************************************************************)
(* printComment (internal/ui/tui.go)                                       *)
(***************************************************************************)
\* a variant of the switch that compares the type without regard to case
prefixOfFoldingCase(type) ==
    CASE type \in {"must", "MUST"} -> "MUST FIX"
      [] type = "want" -> "SUGGEST"
      [] type = "nits" -> "STYLE"
      [] type = "fyi" -> "INFO"
      [] type = "imo" -> "OPINION"
      [] OTHER -> "NOTE"

\* `switch comment.Type`: the prefix, without its emoji
prefixOf(type) ==
    CASE type = "must" -> "MUST FIX"
      [] type = "want" -> "SUGGEST"
      [] type = "nits" -> "STYLE"
      [] type = "fyi" -> "INFO"
      [] type = "imo" -> "OPINION"
      [] OTHER -> "NOTE"

\* `switch comment.Type`: the lipgloss style
commentStyleOf(type) ==
    CASE type = "must" -> "errorStyle"
      [] type = "want" -> "promptStyle"
      [] type = "nits" -> "editPromptStyle"
      [] type = "fyi" -> "titleStyle"
      [] OTHER -> "diffStyle"

\* what printComment writes: the styled heading and the message
printComment(comment) ==
    [prefix |-> prefixOf(comment.Type),
     style |-> commentStyleOf(comment.Type),
     lineInfo |-> IF comment.LineNo > 0 THEN <<comment.LineNo>> ELSE <<>>,
     message |-> comment.Message]

\* The types a comment can arrive with: storedComments keeps what the AI sent.
PrintedTypes == AITypes \cup {""}

LabelInit ==
    /\ pcComment \in [Type : PrintedTypes, LineNo : (-1)..MaxTarget,
                       Message : {<<>>, <<"t">>}]
    /\ pcOut = <<>>
    /\ LangIdle
    /\ RelIdle
    /\ ScrollIdle
    /\ sfResp = [kind |-> "error"]
    /\ sfResult = <<>>
    /\ GenIdle
    /\ StreamIdle
    /\ DiffIdle
    /\ CtxIdle
    /\ ReviewIdle
    /\ CommitIdle
    /\ invoked = "none"

\* printFileReview: m.printComment(comment)
CallPrintComment ==
    /\ pcOut = <<>>
    /\ pcOut' = <<printComment(pcComment)>>
    /\ UNCHANGED <<pcComment, langVars, relVars, scrollVars>>
    /\ UNCHANGED <<sfResp, sfResult, genVars, streamVars>>
    /\ UNCHANGED <<diffVars, ctxVars, reviewVars, commitVars>>

LabelNext == CallPrintComment

SpecLabel == LabelInit /\ [][LabelNext]_vars

\* the labels of the five categories
CategoryLabels == {prefixOf(c) : c \in Categories}

\* C30: a comment whose type is not exactly one of must, want, nits, fyi, imo
\* is printed under the one default label NOTE, which is none of the five
\* category labels; a comment of a category is printed under the label of its
\* category, and the five labels are pairwise distinct.
C30_UnknownTypeIsNote ==
    pcOut # <<>> =>
        /\ pcComment.Type \notin Categories => pcOut[1].prefix = "NOTE"
        /\ pcComment.Type \in Categories =>
               (pcOut[1].prefix = prefixOf(pcComment.Type) /\ pcOut[1].prefix # "NOTE")
        /\ "NOTE" \notin CategoryLabels
        /\ Cardinality(CategoryLabels) = Cardinality(Categories)

\* A comment of type "MUST" was printed as a note.
C30_Witness ==
    /\ pcOut # <<>>
    /\ pcComment.Type = "MUST"
    /\ pcOut[1].prefix = "NOTE"

(***************************************************************************)
(* How printFileReview shows a comment                                     *)
(***************************************************************************)
\* printFileReview: "context" when printCodeContext is called for the comment,
\* "general" when the comment makes hasGeneralComments true and so brings the
\* related-changes section, "neither" otherwise
commentRendering(fileReview, comment) ==
    IF fileReview.DiffText # <<>> /\ comment.lineNo > 0 THEN "context"
    ELSE IF comment.lineNo = 0 THEN "general"
    ELSE "neither"

\* C31: in a FileReview every comment's lineNo is 0 (file-level) or positive,
\* so printFileReview shows every comment either with the code context of its
\* line or as a file-level comment with the related changes, never neither.
C31_LineNoZeroOrPositive ==
    (sfResult # <<>> /\ sfResult[1].ok) =>
        LET fr == sfResult[1].fr[1]
        IN \A k \in 1..Len(fr.Comments) :
              /\ fr.Comments[k].lineNo >= 0
              /\ commentRendering(fr, fr.Comments[k]) \in {"context", "general"}

(***************************************************************************)
(* C32  The summary request counts the comments by category over exactly   *)
(* the comments of the successful FileReviews: nothing of a dropped file   *)
(* is counted, and every comment is counted in the counter of its own      *)
(* category, so the counters add up to the reported total.                 *)
(***************************************************************************)
C32_CountsAddUpToTotal ==
    \A k \in 1..Len(aiLog) :
        aiLog[k].to = "summary" =>
            LET c == aiLog[k].counts
            IN /\ aiLog[k].comments = CommentsOf(FileRequests)
               /\ c.total = Len(CommentsOf(FileRequests))
               /\ c.mustCount + c.wantCount + c.nitsCount = c.total

(***************************************************************************)
(* The legacy streaming review: what is received and when                  *)
(***************************************************************************)
RECURSIVE Concat(_)
\* the concatenation of a list of texts
Concat(texts) == IF texts = <<>> THEN <<>> ELSE Head(texts) \o Concat(Tail(texts))

\* completion is reported: waitForActivity has produced msgReviewComplete
CompletionReported ==
    \/ sState = "reviewStateDisplay"
    \/ \E k \in 1..Len(msgs) : msgs[k].type = "msgReviewComplete"

UserQuit ==
    /\ sProgram \in {"quit", "returned"}
    /\ sState \in {"reviewStateLoading", "reviewStateStreaming"}

\* the producer is at a send and the buffer of the channel is full
ProducerBlocked ==
    /\ \/ pc = "streaming" /\ toSend # <<>>
       \/ pc = "sendErr"
    /\ Len(sub) = SubCapacity

\* no receive is pending and none will be started: the event loop has ended,
\* and only Update starts a waitForActivity
NoReceiverLeft == waiting = 0 /\ sProgram \in {"quit", "returned"}

\* C38: after the user quit while chunks are still being delivered, the
\* producer goroutine is never left blocked for good at a send on the
\* channel, however many chunks remain: it gets to return and close the
\* channel.
C38_ProducerNotStuckAfterQuit ==
    ~(UserQuit /\ ProducerBlocked /\ NoReceiverLeft)

(***************************************************************************)
(* C34  For every diff, ParseDiffSummary and parseDiffFiles agree on the   *)
(* files of the diff: as many entries, in the same order, with the same    *)
(* file name for each entry.                                               *)
(***************************************************************************)
C34_ParsersAgreeOnFiles ==
    parsed = {"files", "summary"} =>
        /\ Len(diffSummary) = Len(files)
        /\ \A k \in 1..Len(files) : diffSummary[k].Name = files[k].fileName

(***************************************************************************)
(* C35  Commit TUI: whenever the model is in the confirm, editing or       *)
(* committing state the commit message is not empty; a response of the AI  *)
(* that is empty or only white space never gets to the confirm state, and  *)
(* no such message is passed to git.CommitChanges.                         *)
(***************************************************************************)
C35_MessageNeverBlank ==
    invoked = "commit" =>
        /\ mState \in {"stateConfirm", "stateEditing", "stateCommitting"} =>
               TrimSpace(commitMessage) # <<>>
        /\ \A k \in 1..Len(commits) : TrimSpace(commits[k]) # <<>>

\* C36: editing the commit message.  While the TUI stays in stateEditing the
\* commit message keeps the value it had when "e" was pressed; "esc" returns
\* to stateConfirm with that value, "enter" with an empty or white-space-only
\* input returns with that value too, and "enter" with any other input
\* returns with the trimmed input.  Entering the editing state, typing in it
\* and leaving it start no commit and leave the diff as it was.
EditingStep ==
    \/ mState = "stateEditing"
    \/ mState' = "stateEditing"

C36_EditingKeepsOrReplacesMessage ==
    [][EditingStep =>
          /\ KeyConfirmEdit => commitMessage' = commitMessage
          /\ (mState = "stateEditing" /\ mState' = "stateEditing") =>
                 commitMessage' = commitMessage
          /\ KeyEditingEsc =>
                 mState' = "stateConfirm" /\ commitMessage' = commitMessage
          /\ KeyEditingEnter =>
                 /\ mState' = "stateConfirm"
                 /\ commitMessage' = IF TrimSpace(textInput) = <<>>
                                      THEN commitMessage
                                      ELSE TrimSpace(textInput)
          /\ mState' \in {"stateEditing", "stateConfirm"}
          /\ UNCHANGED <<commits, inFlight, pendingMsg, diff>>]_vars

\* "esc" after the input was edited to a different non-blank text: the
\* message is still the one editing began with.
C36_Witness ==
    /\ invoked = "commit"
    /\ mState = "stateConfirm"
    /\ commitMessage # <<>>
    /\ commitMessage = originalMessage
    /\ TrimSpace(textInput) \notin {<<>>, commitMessage}
    /\ commits = <<>>

\* ------------------------------------------------------------------------
\* The scrollable review view (reviewModel, reviewStateScrolling)
\* ------------------------------------------------------------------------

MaxReviewLines == 5
MaxWindowHeight == 6

\* the lines a rendered review can have, each one different from the others
LineTexts == <<"l1", "l2", "l3", "l4", "l5", "l6">>

\* the content prepareForScrolling renders: n lines joined by "\n"; the empty
\* review is the content of no line
ScrollContents ==
    {Join([k \in 1..n |-> <<LineTexts[k]>>], <<NL>>) : n \in 0..MaxReviewLines}

\* getViewportHeight: max(1, m.windowHeight-2)
getViewportHeight == max(1, windowHeight - 2)

prepareForScrolling(content) ==
    [reviewLines |-> Split(content, NL), scrollOffset |-> 0]

scrollDown ==
    IF scrollOffset < Len(reviewLines) - getViewportHeight
    THEN scrollOffset + 1
    ELSE scrollOffset

scrollUp ==
    IF scrollOffset > 0 THEN scrollOffset - 1 ELSE scrollOffset

scrollDownPage ==
    LET pageSize == getViewportHeight \div 2
        moved == min(scrollOffset + pageSize, Len(reviewLines) - getViewportHeight)
    IN  IF moved < 0 THEN 0 ELSE moved

scrollUpPage ==
    LET pageSize == getViewportHeight \div 2
    IN  max(0, scrollOffset - pageSize)

scrollToTop == 0

scrollToBottom == max(0, Len(reviewLines) - getViewportHeight)

\* renderScrollableView: the slice m.reviewLines[start:end] it renders
renderScrollableView ==
    LET start == scrollOffset
        end == min(start + getViewportHeight, Len(reviewLines))
    IN  [start |-> start, end |-> end,
         visibleLines |-> SubSeq(reviewLines, start + 1, end)]

ScrollFrame ==
    /\ UNCHANGED <<sfResp, sfResult, genVars, streamVars, langVars, relVars, labelVars>>
    /\ UNCHANGED <<diffVars, ctxVars, reviewVars, commitVars>>

ScrollInit ==
    /\ scState = "reviewStateLoading"
    /\ reviewLines = <<>>
    /\ scrollOffset = 0
    /\ windowHeight = 0
    /\ scProgram = "running"
    /\ LangIdle
    /\ RelIdle
    /\ LabelIdle
    /\ sfResp = [kind |-> "error"]
    /\ sfResult = <<>>
    /\ GenIdle
    /\ StreamIdle
    /\ DiffIdle
    /\ CtxIdle
    /\ ReviewIdle
    /\ CommitIdle
    /\ invoked = "none"

\* reviewModel.Update(tea.WindowSizeMsg)
UpdateWindowSize ==
    /\ scProgram = "running"
    /\ \E height \in 1..MaxWindowHeight : windowHeight' = height
    /\ UNCHANGED <<scState, reviewLines, scrollOffset, scProgram>>
    /\ ScrollFrame

\* reviewModel.Update(msgReviewComplete), reviewModel.Update(msgReviewGenerated)
UpdateScrollReviewArrives ==
    /\ scProgram = "running"
    /\ scState \in {"reviewStateLoading", "reviewStateStreaming"}
    /\ \/ /\ scState' = "reviewStateError"
          /\ UNCHANGED <<reviewLines, scrollOffset>>
       \/ \E content \in ScrollContents :
            /\ reviewLines' = prepareForScrolling(content).reviewLines
            /\ scrollOffset' = prepareForScrolling(content).scrollOffset
            /\ scState' = "reviewStateScrolling"
    /\ UNCHANGED <<windowHeight, scProgram>>
    /\ ScrollFrame

ScrollKeys == {"j", "down", "k", "up", "d", "ctrl+d", "u", "ctrl+u", "g", "G", "home", "end"}

\* reviewModel.Update(tea.KeyMsg), reviewStateScrolling: a scroll key
UpdateScrollKey ==
    /\ scProgram = "running"
    /\ scState = "reviewStateScrolling"
    /\ \E key \in ScrollKeys :
         scrollOffset' =
            CASE key \in {"j", "down"}   -> scrollDown
              [] key \in {"k", "up"}     -> scrollUp
              [] key \in {"d", "ctrl+d"} -> scrollDownPage
              [] key \in {"u", "ctrl+u"} -> scrollUpPage
              [] key \in {"g", "home"}   -> scrollToTop
              [] key \in {"G", "end"}    -> scrollToBottom
    /\ UNCHANGED <<scState, reviewLines, windowHeight, scProgram>>
    /\ ScrollFrame

\* reviewModel.Update(tea.KeyMsg): "q", "ctrl+c" while loading, "q", "ctrl+c",
\* "esc" while scrolling, any key in the error state
UpdateScrollKeyQuit ==
    /\ scProgram = "running"
    /\ scProgram' = "quit"
    /\ UNCHANGED <<scState, reviewLines, scrollOffset, windowHeight>>
    /\ ScrollFrame

ScrollNext ==
    \/ UpdateWindowSize
    \/ UpdateScrollReviewArrives
    \/ UpdateScrollKey
    \/ UpdateScrollKeyQuit

SpecScroll == ScrollInit /\ [][ScrollNext]_vars

\* the largest offset that still shows a full last page
MaxScrollOffset == max(0, Len(reviewLines) - getViewportHeight)

\* C37: in the scrolling mode, whatever scroll keys and window-resize messages
\* came before, 0 <= scrollOffset <= max(0, len(reviewLines) - viewportHeight):
\* the slice reviewLines[scrollOffset:end] that is rendered is in range and
\* the view is never scrolled past the last page.
C37_ScrollOffsetWithinLastPage ==
    scState = "reviewStateScrolling" =>
        /\ 0 <= scrollOffset
        /\ scrollOffset <= MaxScrollOffset
        /\ renderScrollableView.start <= renderScrollableView.end
        /\ renderScrollableView.end <= Len(reviewLines)

====
